---- MODULE Spec2Model ----
(***************************************************************************)
(* Scan orchestration engine of github-lfs-repositor                       *)
(* (src/src/lib/github.ts, src/src/App.tsx).                               *)
(*                                                                         *)
(* Spec     the scan as handleScan drives it: the Lister's pages, the      *)
(*          batches of checkAllReposForJfrog, pause, failure, resume.      *)
(*          A Config Scanner call is one step here: it settles with a      *)
(*          Repository or raises.                                          *)
(* SpecRot  the Config Scanner calls of one batch, request by request,     *)
(*          through fetchWithTokenRotation over the shared token index.    *)
(* SpecList one call of fetchOrgRepos, request by request, through         *)
(*          fetchWithRetry and fetchWithTokenRotation.                     *)
(* SpecApp  a session of the App: scans, restarts, checkpoint files.       *)
(* SpecScan one call of checkRepoForJfrog, file by file and line by line.  *)
(* SpecScanRot  the same call while the shared token index is rotated.     *)
(* SpecHost the host text of the input field, through normalizeGhesHost    *)
(*          and getApiBaseUrl, as a scan is started and resumed.           *)
(* SpecRotLive, SpecListLive  SpecRot and SpecList with every network call *)
(*          settling.                                                      *)
(***************************************************************************)
EXTENDS Integers, Sequences, FiniteSets, TLC

\* ------------------------------------------------------------- bounds

\* Repositories of the organization on the server.
MaxRepos == 6
\* Pushes to a repository that happen while the Lister is paging.
MaxPushes == 1
\* Page size of the listing (100 in the source, scaled).
perPage == 2
\* Credentials of the pool.
MaxTokens == 2
\* Config Scanner calls of one batch in SpecRot.
MaxCalls == 2
\* Repositories of the organization in SpecApp.
MaxAppRepos == 3
\* Scan States created in one session of SpecApp.
MaxScans == 2
\* SpecScan: the entries of a repository's tree
MaxItems == 2
\* SpecScan: the characters of a file's content
MaxLen == 3
\* SpecRot: the candidate files in the tree of one repository
MaxFiles == 2
\* SpecHost: the parts of the longest host text the user types
MaxHostLen == 3

\* ---------------------------------------------------------- constants

\* github.ts:431  const concurrency = token ? 5 : 2
ConcurrencyWithToken == 5
ConcurrencyWithoutToken == 2
\* github.ts:102  const MAX_RETRIES = 5
MAX_RETRIES == 5
\* const RETRY_DELAYS = [1000, 2000, 4000, 8000, 15000], in milliseconds
RETRY_DELAYS == <<1000, 2000, 4000, 8000, 15000>>
\* the delay fetchWithRetry falls back to: RETRY_DELAYS[attempt] || 15000
FallbackDelay == 15000

\* --------------------------------------------------------- variables

VARIABLES
  \* the server
  order,            \* the organization's repository ids, most recently pushed first
  pushes,           \* pushes that happened during a listing
  progress,         \* checkAllReposForJfrog: alreadyScanned and jfrogCount of the run,
                    \* and the counts onProgress was last called with
  scan,             \* SpecScan: one call of checkRepoForJfrog, its locals
  \* App.tsx
  nTokens,          \* tokensRef.current.length
  tokenIndex,       \* tokenIndexRef.current
  cancel,           \* cancelScanRef.current
  ghesHost,         \* React state ghesHost: the host text of the input field
  scanState,        \* React state scanState: <<>> is null, <<s>> holds s
  \* handleScan / fetchOrgRepos / checkAllReposForJfrog, one run
  pc,               \* "idle", "listing", "batch", "sleep"
  resumeState,      \* handleScan was called with a resumeState
  page,             \* fetchOrgRepos: page
  allRepos,         \* fetchOrgRepos: allRepos, then handleScan: allRepos
  currentScanState, \* handleScan: currentScanState (<<>> is null)
  pendingRepos,     \* checkAllReposForJfrog: pendingRepos
  i,                \* checkAllReposForJfrog: loop index i
  concurrency,      \* checkAllReposForJfrog: concurrency
  results,          \* checkAllReposForJfrog: results
  batchResults,     \* the settled members of the batch in flight
  scanResult,       \* the ScanResult the last run returned
  phase,            \* progress.phase
  created,          \* Scan States created so far (the clock createdAt is read from)
  downloaded,       \* the Scan State downloadScanState wrote to a file in the last
                    \* run (<<>>: none); the file's text is Stringify of it
  listError,        \* the error fetchOrgRepos raised in the last run ("none": none)
  fileResult,       \* history: how the last handleFileSelect ended ("none": no file
                    \* selected since the last scan started)
  lateInFlight,     \* a Config Scanner call of a batch that failed is still in flight
  \* history
  absorbed,         \* a tree failure hid a repository's marker in this scan
  settledAtFailure, \* members of the last failed batch that had settled when it failed
  \* SpecList: one call of fetchOrgRepos
  existingRepos,    \* its parameter existingRepos
  req,              \* the request in progress: fetchWithRetry's attempt, whether it
                    \* sleeps before a retry, triedTokens, the last response's status
  requested,        \* history: the call has sent an HTTP request
  \* SpecRot
  exhausted,        \* credentials (0 = none) the server rejects with 403, remaining 0
  call              \* the Config Scanner calls of the batch

runVars == <<pc, resumeState, page, allRepos, currentScanState, pendingRepos, i,
             concurrency, results, batchResults, scanResult, phase>>
rotVars == <<exhausted, call>>
hist == <<absorbed, settledAtFailure>>
appVars == <<ghesHost, created, downloaded, listError>>
listVars == <<existingRepos, req, requested>>
sessionVars == <<fileResult, lateInFlight>>
vars == <<order, pushes, progress, scan, nTokens, tokenIndex, cancel, scanState, runVars, hist,
          rotVars, appVars, listVars, sessionVars>>

\* ----------------------------------------------------------- helpers

Min(a, b) == IF a < b THEN a ELSE b
Range(s) == {s[k] : k \in DOMAIN s}
\* Array.prototype.includes
Includes(s, x) == x \in Range(s)
\* s.slice(from, to), 0-based, end exclusive
Slice(s, from, to) == SubSeq(s, from + 1, Min(to, Len(s)))
\* no element of s occurs twice
NoDup(s) == \A a, b \in DOMAIN s : a # b => s[a] # s[b]

\* ------------------------------------------------------- the server

\* Repositories whose .lfsconfig holds the marker.
Marked == {1, 2}

\* The server's page p of the listing, sorted by pushed.
ServerPage(p) == Slice(order, (p - 1) * perPage, p * perPage)

\* r is moved to the front of s.
MoveToFront(s, r) == <<r>> \o SelectSeq(s, LAMBDA x : x # r)

\* ------------------------------------------------- github.ts, pure

\* fetchOrgRepos: repos.map(r => ({..., hasJfrog: null, ...}))
MapRepos(ids) == [k \in DOMAIN ids |-> [id |-> ids[k], hasJfrog |-> "null"]]

\* repos.map(r => r.id)
RepoIds(repos) == [k \in DOMAIN repos |-> repos[k].id]

\* The organization name typed into the input field.
targetOrg == "acme"

\* The host texts of the input field.
HostTexts == {"", "github.com", "ghes.example.com"}

\* normalizeGhesHost on these texts: undefined ("none") for the empty text and
\* the public host, the host itself otherwise.
normalizeGhesHost(h) == IF h = "" \/ h = "github.com" THEN "none" ELSE h

\* handleScan: the Scan State of a fresh scan. createdAt is the clock reading;
\* lastError is not set ("none": undefined).
NewScanState(repos) ==
  [orgName |-> targetOrg,
   createdAt |-> created + 1,
   ghesHost |-> normalizeGhesHost(ghesHost),
   allRepos |-> repos,
   scannedRepoIds |-> <<>>,
   pendingRepoIds |-> RepoIds(repos),
   jfrogRepos |-> <<>>,
   isComplete |-> FALSE,
   lastError |-> "none"]

\* Mutant: a resumed run takes every repository of the list.
PendingReposOf_All(repos, s) == repos

\* checkAllReposForJfrog: repos.filter(r => scanState.pendingRepoIds.includes(r.id))
PendingReposOf(repos, s) ==
  SelectSeq(repos, LAMBDA r : Includes(s.pendingRepoIds, r.id))

\* Mutant: the two batch sizes are swapped.
ConcurrencyOf_Swapped(n) ==
  IF n > 0 THEN ConcurrencyWithoutToken ELSE ConcurrencyWithToken

\* checkAllReposForJfrog: token ? 5 : 2
ConcurrencyOf(n) == IF n > 0 THEN ConcurrencyWithToken ELSE ConcurrencyWithoutToken

\* Mutant: a match replaces the matches committed before it.
CommitResult_LastMatchOnly(s, result) ==
  [s EXCEPT !.scannedRepoIds = Append(@, result.id),
            !.pendingRepoIds = SelectSeq(@, LAMBDA id : id # result.id),
            !.jfrogRepos = IF result.hasJfrog = "true" THEN <<result>> ELSE @]

\* Mutant: the id is pushed to scannedRepoIds and left in pendingRepoIds.
CommitResult_KeepPending(s, result) ==
  [s EXCEPT !.scannedRepoIds = Append(@, result.id),
            !.jfrogRepos = IF result.hasJfrog = "true" THEN Append(@, result) ELSE @]

\* checkAllReposForJfrog: the body of for (const result of batchResults)
CommitResult(s, result) ==
  [s EXCEPT !.scannedRepoIds = Append(@, result.id),
            !.pendingRepoIds = SelectSeq(@, LAMBDA id : id # result.id),
            !.jfrogRepos = IF result.hasJfrog = "true" THEN Append(@, result) ELSE @]

RECURSIVE CommitFrom(_, _, _)
CommitFrom(s, rs, k) ==
  IF k > Len(rs) THEN s ELSE CommitFrom(CommitResult(s, rs[k]), rs, k + 1)

\* Mutant: the results of a batch are dropped when cancellation was asserted
\* while it was in flight.
CommitBatch_NotWhenCancelled(s, rs) == IF cancel THEN s ELSE CommitFrom(s, rs, 1)

\* checkAllReposForJfrog: for (const result of batchResults) {...}
CommitBatch(s, rs) == CommitFrom(s, rs, 1)

\* No run is in progress and onProgress has not been called in this scan.
NoProgress == [alreadyScanned |-> 0, jfrogCount |-> 0, checked |-> 0, jfrogFound |-> 0]

\* checkAllReposForJfrog: results.filter(r => r.hasJfrog).length
JfrogCount(res) == Len(SelectSeq(res, LAMBDA r : r.hasJfrog = "true"))

\* Mutant: the count leaves out the repositories scanned before the run.
Reported_NoOffset(already, idx, n) == idx + n

\* checkAllReposForJfrog: alreadyScanned + i + batchResults.length
Reported(already, idx, n) == already + idx + n

\* checkAllReposForJfrog: jfrogCount++ for every match of the batch, then
\* onProgress(alreadyScanned + i + batchResults.length, ..., jfrogCount)
OnProgress(p, idx, rs) ==
  [p EXCEPT !.jfrogCount = @ + JfrogCount(rs),
            !.checked = Reported(p.alreadyScanned, idx, Len(rs)),
            !.jfrogFound = p.jfrogCount + JfrogCount(rs)]

\* checkAllReposForJfrog: results.push(result) for the matches of a batch
PushMatches(res, rs) == res \o SelectSeq(rs, LAMBDA r : r.hasJfrog = "true")

\* checkRepoForJfrog: the Repository it returns when every request was answered
\* OK ({...repo, hasJfrog: jfrogUrls.length > 0, ...}).
Scanned(repo) ==
  [repo EXCEPT !.hasJfrog = IF repo.id \in Marked THEN "true" ELSE "false"]

\* checkRepoForJfrog: if (!treeResponse.ok) return {...repo, hasJfrog: false, ...}
NoMatch(repo) == [repo EXCEPT !.hasJfrog = "false"]

\* generateCsv: the header line, then one line for every repository whose
\* hasJfrog is truthy.
generateCsv(repos) ==
  <<[line |-> "header", id |-> 0]>> \o
  [k \in DOMAIN SelectSeq(repos, LAMBDA r : r.hasJfrog = "true") |->
     [line |-> "row", id |-> SelectSeq(repos, LAMBDA r : r.hasJfrog = "true")[k].id]]

\* handleExport: generateCsv(repos.filter(r => r.hasJfrog))
handleExport(repos) == generateCsv(SelectSeq(repos, LAMBDA r : r.hasJfrog = "true"))

\* ------------------------------------------------------- the codec

\* JSON values, tagged by their type.
JNull == [t |-> "null", v |-> 0]
JBool(b) == [t |-> "boolean", v |-> b]
JNum(n) == [t |-> "number", v |-> n]
JStr(x) == [t |-> "string", v |-> x]
JArr(q) == [t |-> "array", v |-> q]
JObj(f) == [t |-> "object", v |-> f]

\* A file's text: a JSON document, or text JSON.parse rejects.
Text(j) == [kind |-> "json", json |-> j]
Garbage == [kind |-> "garbage", json |-> JNull]

\* JSON.stringify of a Repository: hasJfrog is null, true or false.
StringifyRepo(r) ==
  JObj([id |-> JNum(r.id),
        hasJfrog |-> IF r.hasJfrog = "null" THEN JNull ELSE JBool(r.hasJfrog = "true")])

\* Mutant: a property holding undefined is written as null, as JSON.stringify
\* does for an array element.
DefinedKeys_All(s) ==
  {"orgName", "createdAt", "allRepos", "scannedRepoIds", "pendingRepoIds",
   "jfrogRepos", "isComplete", "lastError", "ghesHost"}

\* JSON.stringify leaves out the properties that hold undefined.
DefinedKeys(s) ==
  {"orgName", "createdAt", "allRepos", "scannedRepoIds", "pendingRepoIds",
   "jfrogRepos", "isComplete"}
    \cup (IF s.lastError = "none" THEN {} ELSE {"lastError"})
    \cup (IF s.ghesHost = "none" THEN {} ELSE {"ghesHost"})

JOptStr(x) == IF x = "none" THEN JNull ELSE JStr(x)

\* downloadScanState: JSON.stringify(scanState, null, 2)
Stringify(s) ==
  LET all == [orgName |-> JStr(s.orgName),
              createdAt |-> JStr(s.createdAt),
              allRepos |-> JArr([k \in DOMAIN s.allRepos |-> StringifyRepo(s.allRepos[k])]),
              scannedRepoIds |-> JArr([k \in DOMAIN s.scannedRepoIds |-> JNum(s.scannedRepoIds[k])]),
              pendingRepoIds |-> JArr([k \in DOMAIN s.pendingRepoIds |-> JNum(s.pendingRepoIds[k])]),
              jfrogRepos |-> JArr([k \in DOMAIN s.jfrogRepos |-> StringifyRepo(s.jfrogRepos[k])]),
              isComplete |-> JBool(s.isComplete),
              lastError |-> JOptStr(s.lastError),
              ghesHost |-> JOptStr(s.ghesHost)]
  IN  Text(JObj([k \in DefinedKeys(s) |-> all[k]]))

\* state.k: undefined for a property the object does not have, and for any
\* property of a number, a string, a boolean or an array.
Get(j, k) ==
  IF j.t = "object" /\ k \in DOMAIN j.v THEN j.v[k] ELSE [t |-> "undefined", v |-> 0]

\* Array.isArray(state.k)
IsArray(j, k) == Get(j, k).t = "array"

\* The object JSON.parse built, read field by field as the code reads it.
ReviveRepo(j) ==
  [id |-> Get(j, "id").v,
   hasJfrog |-> IF Get(j, "hasJfrog").t = "boolean"
                THEN (IF Get(j, "hasJfrog").v THEN "true" ELSE "false")
                ELSE "null"]

\* An optional string: undefined ("none") when the property is missing.
ReviveOpt(j, k) ==
  IF Get(j, k).t = "string" THEN Get(j, k).v
  ELSE IF Get(j, k).t = "undefined" THEN "none"
  ELSE Get(j, k).t

\* isComplete of a document without that property is undefined, which every
\* test the code makes takes as false.
Revive(j) ==
  [orgName |-> Get(j, "orgName").v,
   createdAt |-> Get(j, "createdAt").v,
   ghesHost |-> ReviveOpt(j, "ghesHost"),
   allRepos |-> [k \in DOMAIN Get(j, "allRepos").v |-> ReviveRepo(Get(j, "allRepos").v[k])],
   scannedRepoIds |-> [k \in DOMAIN Get(j, "scannedRepoIds").v |-> Get(j, "scannedRepoIds").v[k].v],
   pendingRepoIds |-> [k \in DOMAIN Get(j, "pendingRepoIds").v |-> Get(j, "pendingRepoIds").v[k].v],
   jfrogRepos |-> [k \in DOMAIN Get(j, "jfrogRepos").v |-> ReviveRepo(Get(j, "jfrogRepos").v[k])],
   isComplete |-> Get(j, "isComplete").t = "boolean" /\ Get(j, "isComplete").v,
   lastError |-> ReviveOpt(j, "lastError")]

\* parseScanState: the condition of its if.
Accepts(j) ==
  /\ Get(j, "orgName").t = "string"
  /\ IsArray(j, "allRepos")
  /\ IsArray(j, "scannedRepoIds")
  /\ IsArray(j, "pendingRepoIds")
  /\ IsArray(j, "jfrogRepos")

\* What the body of parseScanState's try block does: JSON.parse raises on text
\* that is no JSON, state.orgName raises on the document null.
TryParse(content) ==
  IF content.kind = "garbage" THEN [outcome |-> "SyntaxError", state |-> <<>>]
  ELSE IF content.json.t = "null" THEN [outcome |-> "TypeError", state |-> <<>>]
  ELSE IF Accepts(content.json) THEN [outcome |-> "return", state |-> <<Revive(content.json)>>]
  ELSE [outcome |-> "return", state |-> <<>>]

\* Mutant: parseScanState without its catch.
parseScanState_NoCatch(content) ==
  [raised |-> TryParse(content).outcome # "return", state |-> TryParse(content).state]

\* parseScanState: try {...} catch { return null }; <<>> is null.
parseScanState(content) == [raised |-> FALSE, state |-> TryParse(content).state]

\* ------------------------------------------------------ ScanResult

NoResult == [kind |-> "none", isPartial |-> FALSE, wasPaused |-> FALSE,
             rateLimitReset |-> FALSE, repos |-> <<>>]

\* return {repos: results, isPartial: false, scanState}
CompleteResult(res) == [kind |-> "complete", isPartial |-> FALSE, wasPaused |-> FALSE,
                        rateLimitReset |-> FALSE, repos |-> res]

\* return {repos: results, isPartial: true, wasPaused: true, ...}
PausedResult(res) == [kind |-> "paused", isPartial |-> TRUE, wasPaused |-> TRUE,
                      rateLimitReset |-> FALSE, repos |-> res]

\* the three returns of the catch block; e is "ratelimit", "network" or "other"
FailureResult(res, e) == [kind |-> e, isPartial |-> TRUE, wasPaused |-> FALSE,
                          rateLimitReset |-> (e = "ratelimit"), repos |-> res]

ErrorKinds == {"ratelimit", "network", "other"}

\* fetchOrgRepos called without existingRepos.
NotGiven == [given |-> FALSE, repos |-> <<>>]

\* History of the call of fetchWithRetry that ended last: how it ended
\* ("none": no call has ended, "returned": it returned a response, "raised":
\* it threw), the status of the response returned (0: none), the statusCode
\* and the retryable flag of the NetworkError thrown (statusCode 0: undefined),
\* and the lastError the NetworkError was built from ("none": returned).
NoCall == [ended |-> "none", status |-> 0, statusCode |-> 0, retryable |-> FALSE,
           lastError |-> "none"]

\* fetchWithRetry entered for a request of a call whose triedTokens is empty.
\* lastError is "none" for null, else "server", "timeout", "cors" or "other";
\* waits and notices are the sleeps and the onRetry notices of this call.
NewRequest == [attempt |-> 0, waiting |-> FALSE, triedTokens |-> {}, status |-> 0,
               lastError |-> "none", waits |-> <<>>, notices |-> 0, last |-> NoCall,
               \* history: the x-ratelimit-remaining header of the response
               \* the request rotated on ("none": it has not rotated)
               header |-> "none"]

\* No call of checkRepoForJfrog is followed line by line.
NoScan == [pc |-> "none", files |-> <<>>, k |-> 0, jfrogUrls |-> <<>>,
           configLocations |-> <<>>, hasJfrog |-> "null", fetched |-> <<>>]

\* ------------------------------------------- fetchWithRetry, pure

\* response.ok
Ok(status) == status >= 200 /\ status <= 299

\* fetchWithRetry: response.status >= 500
Retried(status) == status >= 500

\* Mutant: every sleep before a retry is the first delay of the schedule.
RetryDelay_Flat(attempt) ==
  IF attempt + 1 \in DOMAIN RETRY_DELAYS THEN RETRY_DELAYS[1] ELSE FallbackDelay

\* fetchWithRetry: RETRY_DELAYS[attempt] || 15000 (attempt counts from 0)
RetryDelay(attempt) ==
  IF attempt + 1 \in DOMAIN RETRY_DELAYS THEN RETRY_DELAYS[attempt + 1]
  ELSE FallbackDelay

\* Mutant: no exception of fetch is thrown at once.
ThrowsAtOnce_Never(kind) == FALSE

\* fetchWithRetry's catch: the TypeError of a rejected cross-origin request is
\* wrapped in a NetworkError that is not retryable and thrown from the catch.
ThrowsAtOnce(kind) == kind = "cors"

\* fetchWithRetry: lastError is set, onRetry is given the notice and the call
\* sleeps RetryDelay(attempt) before the next attempt.
BacksOff(r, err, status) ==
  [r EXCEPT !.waiting = TRUE, !.status = status, !.lastError = err,
            !.waits = Append(@, RetryDelay(r.attempt)), !.notices = @ + 1]

\* Mutant: a 5xx response to the last attempt is raised as the NetworkError
\* that carries the status.
Returned_Raises5xx(r, status) ==
  IF status >= 500
  THEN [ended |-> "raised", status |-> 0, statusCode |-> status, retryable |-> TRUE,
        lastError |-> "server"]
  ELSE [ended |-> "returned", status |-> status, statusCode |-> 0,
        retryable |-> FALSE, lastError |-> "none"]

\* fetchWithRetry: return response
Returned(r, status) ==
  [ended |-> "returned", status |-> status, statusCode |-> 0, retryable |-> FALSE,
   lastError |-> "none"]

\* fetchWithRetry throws from the catch (the cross-origin rejection: no
\* statusCode, not retryable).
ThrownAtOnce(r) ==
  [ended |-> "raised", status |-> 0, statusCode |-> 0, retryable |-> FALSE,
   lastError |-> "cors"]

\* fetchWithRetry leaves the loop and throws NetworkError(..., lastError
\* instanceof ServerError ? lastError.statusCode : undefined, true); err and
\* status are lastError and its statusCode.
ThrownAfterLoop(r, err, status) ==
  [ended |-> "raised", status |-> 0,
   statusCode |-> IF err = "server" THEN status ELSE 0, retryable |-> TRUE,
   lastError |-> err]

\* The x-ratelimit-remaining header of a response: absent (get returns
\* null) or a decimal text.
Headers == {"absent", "0", "1"}

\* parseInt on these texts
ParseInt(t) == IF t = "0" THEN 0 ELSE 1

\* Mutant: a missing header counts as quota left.
Remaining_DefaultOne(header) == ParseInt(IF header = "absent" THEN "1" ELSE header)

\* fetchWithTokenRotation: parseInt(response.headers.get('x-ratelimit-remaining') || '0')
Remaining(header) == ParseInt(IF header = "absent" THEN "0" ELSE header)

\* fetchWithRetry from request r on, the server answering every attempt with
\* the same status: the attempts back off while the status is retried and
\* attempts are left, then the response is returned.
RECURSIVE fetchWithRetry(_, _)
fetchWithRetry(r, status) ==
  IF Retried(status) /\ r.attempt < MAX_RETRIES - 1
  THEN fetchWithRetry([BacksOff(r, "server", status) EXCEPT !.waiting = FALSE,
                                                            !.attempt = @ + 1],
                      status)
  ELSE Returned(r, status)

\* ------------------------------------------------------------- Spec

\* The batch in flight: pendingRepos.slice(i, i + concurrency)
Batch == Slice(pendingRepos, i, i + concurrency)

\* batch.map(repo => checkRepoForJfrog(repo, ...)): every member in flight
Launched(b) == [k \in DOMAIN b |-> [done |-> FALSE, value |-> b[k]]]

AllDone(br) == \A k \in DOMAIN br : br[k].done
Values(br) == [k \in DOMAIN br |-> br[k].value]

\* The Scan State object of the run; a resumed run mutates the object the
\* React state holds.
Holds(s, resumed) ==
  /\ currentScanState' = <<s>>
  /\ scanState' = IF resumed THEN <<s>> ELSE scanState

\* checkAllReposForJfrog returns r with scanState s; handleScan stores it:
\* setScanState(scanResult.scanState), setProgress(phase).
Returns(s, r, settled) ==
  /\ pc' = "idle"
  /\ settledAtFailure' = settled
  /\ currentScanState' = <<>>
  /\ scanState' = <<s>>
  /\ scanResult' = r
  /\ phase' = IF r.isPartial THEN "partial" ELSE "complete"
  /\ pendingRepos' = <<>>
  /\ i' = 0
  /\ concurrency' = 0
  /\ results' = <<>>
  /\ batchResults' = <<>>
  /\ downloaded' = IF r.isPartial /\ ~r.wasPaused THEN <<s>> ELSE <<>>

\* scanState.isComplete = true; scanState.pendingRepoIds = []
MarkComplete(s) == [s EXCEPT !.isComplete = TRUE, !.pendingRepoIds = <<>>]

\* Mutant: the cancellation check comes before the loop condition.
LoopTop_CancelFirst(s, pr, idx, res, conc, c, resumed) ==
  IF c
  THEN Returns(s, PausedResult(res), 0)
  ELSE IF idx >= Len(pr)
  THEN Returns(MarkComplete(s), CompleteResult(res), 0)
  ELSE /\ pc' = "batch"
       /\ settledAtFailure' = 0
       /\ Holds(s, resumed)
       /\ pendingRepos' = pr
       /\ i' = idx
       /\ concurrency' = conc
       /\ results' = res
       /\ batchResults' = Launched(Slice(pr, idx, idx + conc))
       /\ scanResult' = NoResult
       /\ phase' = "checking-lfs"
       /\ downloaded' = <<>>

\* Mutant: the pause exit records an error in the state.
LoopTop_PauseRecordsError(s, pr, idx, res, conc, c, resumed) ==
  IF idx >= Len(pr)
  THEN Returns(MarkComplete(s), CompleteResult(res), 0)
  ELSE IF c
  THEN Returns([s EXCEPT !.lastError = "other"], PausedResult(res), 0)
  ELSE /\ pc' = "batch"
       /\ settledAtFailure' = 0
       /\ Holds(s, resumed)
       /\ pendingRepos' = pr
       /\ i' = idx
       /\ concurrency' = conc
       /\ results' = res
       /\ batchResults' = Launched(Slice(pr, idx, idx + conc))
       /\ scanResult' = NoResult
       /\ phase' = "checking-lfs"
       /\ downloaded' = <<>>

\* The head of the for loop at index idx: the loop condition, the cancellation
\* check and the launch of the batch, up to the await of Promise.all.
LoopTop(s, pr, idx, res, conc, c, resumed) ==
  IF idx >= Len(pr)
  THEN Returns(MarkComplete(s), CompleteResult(res), 0)
  ELSE IF c
  THEN Returns(s, PausedResult(res), 0)
  ELSE /\ pc' = "batch"
       /\ settledAtFailure' = 0
       /\ Holds(s, resumed)
       /\ pendingRepos' = pr
       /\ i' = idx
       /\ concurrency' = conc
       /\ results' = res
       /\ batchResults' = Launched(Slice(pr, idx, idx + conc))
       /\ scanResult' = NoResult
       /\ phase' = "checking-lfs"
       /\ downloaded' = <<>>

\* Mutant: the loop index starts at alreadyScanned although pendingRepos is
\* already filtered.
EnterRun_FromAlreadyScanned(repos, s, c, resumed) ==
  LoopTop(s, PendingReposOf(repos, s), Len(s.scannedRepoIds), s.jfrogRepos,
          ConcurrencyOf(nTokens), c, resumed)

\* checkAllReposForJfrog from its first line to the first await.
EnterRun(repos, s, c, resumed) ==
  LoopTop(s, PendingReposOf(repos, s), 0, s.jfrogRepos, ConcurrencyOf(nTokens),
          c, resumed)

\* handleScan() without a resumeState, up to the first request of the Lister.
handleScanFresh ==
  /\ pc = "idle"
  /\ pc' = "listing"
  /\ cancel' = FALSE
  /\ resumeState' = FALSE
  /\ page' = 1
  /\ allRepos' = <<>>
  /\ currentScanState' = <<>>
  /\ scanResult' = NoResult
  /\ phase' = "fetching-repos"
  /\ absorbed' = FALSE
  /\ settledAtFailure' = 0
  /\ batchResults' = <<>>
  /\ downloaded' = <<>>
  /\ listError' = "none"
  /\ fileResult' = "none"
  /\ progress' = NoProgress
  /\ UNCHANGED <<order, pushes, scan, nTokens, tokenIndex, scanState, pendingRepos, i,
                 concurrency, results, rotVars, ghesHost, created, listVars,
                 lateInFlight>>

\* The first scan of the session: no Scan State is held yet.
StartScan ==
  /\ scanState = <<>>
  /\ handleScanFresh

\* A repository of the organization is pushed to while the Lister is paging.
\* Only a push to a repository behind the pages already fetched changes what
\* the pages to come hold.
Push(r) ==
  /\ pc = "listing"
  /\ pushes < MaxPushes
  /\ \E k \in DOMAIN order : order[k] = r /\ k > (page - 1) * perPage /\ k > 1
  /\ order' = MoveToFront(order, r)
  /\ pushes' = pushes + 1
  /\ UNCHANGED <<progress, scan, nTokens, tokenIndex, cancel, scanState, runVars, hist,
                 rotVars, appVars, listVars, sessionVars>>

\* fetchOrgRepos: one page answered OK; after the last page handleScan builds
\* the Scan State and enters checkAllReposForJfrog.
ListPage ==
  /\ pc = "listing"
  /\ LET repos == ServerPage(page)
         all == allRepos \o MapRepos(repos)
     IN  IF Len(repos) = perPage
         THEN /\ page' = page + 1
              /\ allRepos' = all
              /\ UNCHANGED <<pc, currentScanState, scanState, pendingRepos, i,
                             concurrency, results, batchResults, scanResult, phase,
                             settledAtFailure, created, downloaded>>
         ELSE /\ allRepos' = all
              /\ page' = page
              /\ created' = created + 1
              /\ EnterRun(all, NewScanState(all), cancel, FALSE)
  /\ progress' = [progress EXCEPT !.alreadyScanned = 0, !.jfrogCount = 0]
  /\ UNCHANGED <<order, pushes, scan, nTokens, tokenIndex, cancel, resumeState, absorbed,
                 rotVars, ghesHost, listError, listVars, sessionVars>>

\* fetchOrgRepos raises e (404, rate limit, transport failure); handleScan's
\* catch: if (currentScanState) {lastError, setScanState, downloadScanState},
\* then the phase by the class of the error.
ListFail(e) ==
  /\ pc = "listing"
  /\ pc' = "idle"
  /\ listError' = e
  /\ IF currentScanState # <<>>
     THEN LET s == [currentScanState[1] EXCEPT !.lastError = e]
          IN  /\ scanState' = <<s>>
              /\ downloaded' = <<s>>
     ELSE UNCHANGED <<scanState, downloaded>>
  /\ phase' = IF e \in {"ratelimit", "network"} THEN "partial" ELSE "error"
  /\ page' = 1
  /\ allRepos' = <<>>
  /\ UNCHANGED <<order, pushes, progress, scan, nTokens, tokenIndex, cancel, resumeState,
                 currentScanState, pendingRepos, i, concurrency, results,
                 batchResults, scanResult, hist, rotVars, ghesHost, created, listVars, sessionVars>>

\* handlePause
Pause ==
  /\ pc # "idle"
  /\ ~cancel
  /\ cancel' = TRUE
  /\ UNCHANGED <<order, pushes, progress, scan, nTokens, tokenIndex, scanState, runVars, hist,
                 rotVars, appVars, listVars, sessionVars>>

\* handleAddToken adds the first credential / handleRemoveToken removes the
\* last one, between two runs.
EditTokens(n) ==
  /\ pc = "idle"
  /\ n # nTokens
  /\ nTokens' = n
  /\ UNCHANGED <<order, pushes, progress, scan, tokenIndex, cancel, scanState, runVars, hist,
                 rotVars, appVars, listVars, sessionVars>>

\* Member k of the batch settles with a Repository. When it is the last one,
\* Promise.all resolves: the batch is committed, progress is reported and the
\* run goes to sleep or leaves the loop.
Settle(k, out) ==
  /\ pc = "batch"
  /\ k \in DOMAIN batchResults
  /\ ~batchResults[k].done
  /\ LET repo == batchResults[k].value
         result == IF out = "ok" THEN Scanned(repo) ELSE NoMatch(repo)
         br == [batchResults EXCEPT ![k] = [done |-> TRUE, value |-> result]]
         s == CommitBatch(currentScanState[1], Values(br))
         res == PushMatches(results, Values(br))
     IN  /\ absorbed' = (absorbed \/ result # Scanned(repo))
         /\ IF ~AllDone(br)
            THEN /\ batchResults' = br
                 /\ UNCHANGED <<pc, currentScanState, scanState, pendingRepos, i,
                                concurrency, results, scanResult, phase,
                                settledAtFailure, downloaded, progress>>
            ELSE IF i + concurrency < Len(pendingRepos)
            THEN /\ pc' = "sleep"
                 /\ Holds(s, resumeState)
                 /\ results' = res
                 /\ batchResults' = <<>>
                 /\ progress' = OnProgress(progress, i, Values(br))
                 /\ UNCHANGED <<pendingRepos, i, concurrency, scanResult, phase,
                                settledAtFailure, downloaded>>
            ELSE /\ LoopTop(s, pendingRepos, i + concurrency, res, concurrency, cancel,
                            resumeState)
                 /\ progress' = [OnProgress(progress, i, Values(br)) EXCEPT
                                   !.alreadyScanned = 0, !.jfrogCount = 0]
  /\ UNCHANGED <<order, pushes, scan, nTokens, tokenIndex, cancel, resumeState, page,
                 allRepos, rotVars, ghesHost, created, listError,
                 listVars, sessionVars>>

\* Mutant: the catch block folds in the members that had settled.
FailureState_Partial(s, br, e) ==
  [CommitBatch(s, SelectSeq(Values(br), LAMBDA r : r.hasJfrog # "null"))
     EXCEPT !.lastError = e]

\* The catch block: scanState.lastError = errorMessage; the state it returns.
FailureState(s, br, e) == [s EXCEPT !.lastError = e]

\* Member k of the batch raises e: Promise.all rejects and the catch block
\* returns the partial result.
Raise(k, e) ==
  /\ pc = "batch"
  /\ k \in DOMAIN batchResults
  /\ ~batchResults[k].done
  /\ Returns(FailureState(currentScanState[1], batchResults, e),
             FailureResult(results, e),
             Cardinality({m \in DOMAIN batchResults : batchResults[m].done}))
  /\ lateInFlight' = (lateInFlight \/
                        \E m \in DOMAIN batchResults : m # k /\ ~batchResults[m].done)
  /\ progress' = [progress EXCEPT !.alreadyScanned = 0, !.jfrogCount = 0]
  /\ UNCHANGED <<order, pushes, scan, nTokens, tokenIndex, cancel, resumeState, page,
                 allRepos, absorbed, rotVars, ghesHost, created, listError,
                 listVars, fileResult>>

\* The tree request of member k of the batch is answered 503 at every
\* attempt of the transport: what fetchWithRetry hands back is returned by
\* fetchWithTokenRotation (the status is no 403), and checkRepoForJfrog
\* returns no match for a tree response that is not OK; an error raised by
\* the transport would leave the call and reject Promise.all.
TreeExhausted(k) ==
  LET fin == fetchWithRetry(NewRequest, 503)
  IN  IF fin.ended = "returned"
      THEN Settle(k, IF Ok(fin.status) THEN "ok" ELSE "nonok")
      ELSE Raise(k, "network")

\* The sleep between two batches ends: i += concurrency and the loop head.
Wake ==
  /\ pc = "sleep"
  /\ LoopTop(currentScanState[1], pendingRepos, i + concurrency, results,
             concurrency, cancel, resumeState)
  /\ progress' = IF cancel
                 THEN [progress EXCEPT !.alreadyScanned = 0, !.jfrogCount = 0]
                 ELSE progress
  /\ UNCHANGED <<order, pushes, scan, nTokens, tokenIndex, cancel, resumeState, page,
                 allRepos, absorbed, rotVars, ghesHost, created, listError,
                 listVars, sessionVars>>

\* handleResume: handleScan(scanState)
Resume ==
  /\ pc = "idle"
  /\ scanState # <<>>
  /\ Len(scanState[1].pendingRepoIds) > 0
  /\ cancel' = FALSE
  /\ resumeState' = TRUE
  /\ allRepos' = scanState[1].allRepos
  /\ page' = 1
  /\ ghesHost' = IF scanState[1].ghesHost = "none" THEN "" ELSE scanState[1].ghesHost
  /\ listError' = "none"
  /\ EnterRun(scanState[1].allRepos, scanState[1], FALSE, TRUE)
  /\ fileResult' = "none"
  /\ progress' = [progress EXCEPT
                    !.alreadyScanned = Len(scanState[1].scannedRepoIds),
                    !.jfrogCount = JfrogCount(scanState[1].jfrogRepos)]
  /\ UNCHANGED <<order, pushes, scan, nTokens, tokenIndex, absorbed, rotVars, created,
                 listVars, lateInFlight>>

Init ==
  /\ order \in {[k \in 1..n |-> k] : n \in 0..MaxRepos}
  /\ pushes = 0
  /\ progress = NoProgress
  /\ scan = NoScan
  /\ nTokens \in 0..1
  /\ tokenIndex = 0
  /\ cancel = FALSE
  /\ scanState = <<>>
  /\ pc = "idle"
  /\ resumeState = FALSE
  /\ page = 1
  /\ allRepos = <<>>
  /\ currentScanState = <<>>
  /\ pendingRepos = <<>>
  /\ i = 0
  /\ concurrency = 0
  /\ results = <<>>
  /\ batchResults = <<>>
  /\ scanResult = NoResult
  /\ phase = "idle"
  /\ absorbed = FALSE
  /\ settledAtFailure = 0
  /\ exhausted = {}
  /\ call = <<>>
  /\ ghesHost = ""
  /\ created = 0
  /\ downloaded = <<>>
  /\ listError = "none"
  /\ existingRepos = NotGiven
  /\ req = NewRequest
  /\ requested = FALSE
  /\ fileResult = "none"
  /\ lateInFlight = FALSE

Next ==
  \/ StartScan
  \/ \E r \in 1..MaxRepos : Push(r)
  \/ ListPage
  \/ \E e \in ErrorKinds \cup {"notfound"} : ListFail(e)
  \/ Pause
  \/ \E n \in 0..1 : EditTokens(n)
  \/ \E k \in 1..ConcurrencyWithToken, out \in {"ok", "nonok"} : Settle(k, out)
  \/ \E k \in 1..ConcurrencyWithToken, e \in ErrorKinds : Raise(k, e)
  \/ \E k \in 1..ConcurrencyWithToken : TreeExhausted(k)
  \/ Wake
  \/ Resume

Spec == Init /\ [][Next]_vars

\* ---------------------------------------------------------- SpecRot

\* App.tsx getCurrentToken: null (0) for an empty pool, else the credential at
\* the current index; credential k of the pool is written k.
GetToken(n, idx) == IF n = 0 THEN 0 ELSE (idx % n) + 1

\* App.tsx rotateToken
RotateToken(n, idx) == IF n > 1 THEN (idx + 1) % n ELSE idx

\* fetchWithTokenRotation: if (token) triedTokens.add(token)
AddTried(tried, token) == IF token # 0 THEN tried \cup {token} ELSE tried

\* Mutant: rotation gives up one credential early.
CanRotate_OneShort(tried, n) == n > 1 /\ Cardinality(tried) + 1 < n

\* fetchWithTokenRotation: tokenCount > 1 && triedTokens.size < tokenCount
CanRotate(tried, n) == n > 1 /\ Cardinality(tried) < n

\* Mutant: resetTriedTokens leaves the set as it is.
ResetTried_Keep(tried) == tried

\* checkRepoForJfrog: resetTriedTokens: () => triedTokens.clear()
ResetTried(tried) == {}

\* A Config Scanner call at its first request: the tree, with the current
\* credential, an empty tried set.
NewCall(t) ==
  [pc |-> "tree", token |-> t, triedTokens |-> {}, found |-> FALSE,
   result |-> "none",
   \* history: the credentials rejected in the logical request in progress (in
   \* the last one, once the call is done), and how the tree fetch failed
   rejected |-> {}, treeFailed |-> "no",
   \* history: a credential was rejected in an earlier logical request of the
   \* call; the number of content requests the call has made
   before |-> FALSE, files |-> 0]

\* fetchWithTokenRotation is entered for the next logical request of call c.
NextRequest(c, t) ==
  [c EXCEPT !.pc = "file", !.token = t, !.rejected = {},
            !.before = @ \/ c.rejected # {}, !.files = @ + 1]

\* The call ends with result r; its locals are gone.
Done(c, r) ==
  [c EXCEPT !.pc = "done", !.result = r, !.token = 0, !.triedTokens = {},
            !.found = FALSE, !.before = FALSE, !.files = 0]

\* Mutant: a tree answered non-OK is raised, as fetchOrgRepos does for a page.
TreeNotOk_Raises(c) == [Done(c, "network") EXCEPT !.treeFailed = "nonok"]

\* checkRepoForJfrog: if (!treeResponse.ok) return {...repo, hasJfrog: false, ...}
TreeNotOk(c) == [Done(c, "nomatch") EXCEPT !.treeFailed = "nonok"]

\* checkRepoForJfrog: return {...repo, hasJfrog: jfrogUrls.length > 0, ...}
Finish(c) == Done(c, IF c.found THEN "match" ELSE "nomatch")

InFlight(q) == q \in DOMAIN call /\ call[q].pc \in {"tree", "file"}

\* fetchWithRetry returns a 403 with remaining = 0 to call q: the credential is
\* marked tried, and the request rotates and goes on, or raises RateLimitError.
RateLimited(q) ==
  /\ InFlight(q)
  /\ call[q].token \in exhausted
  /\ LET c == call[q]
         tried == AddTried(c.triedTokens, c.token)
         idx == RotateToken(nTokens, tokenIndex)
         t == GetToken(nTokens, idx)
     IN  IF CanRotate(tried, nTokens)
         THEN /\ tokenIndex' = idx
              /\ call' = [call EXCEPT ![q] =
                   [c EXCEPT !.triedTokens = tried,
                             !.token = t,
                             !.rejected = @ \cup {c.token}]]
         ELSE /\ tokenIndex' = tokenIndex
              /\ call' = [call EXCEPT ![q] =
                   [Done(c, "ratelimit") EXCEPT !.rejected = @ \cup {c.token},
                                                !.treeFailed =
                                                  IF c.pc = "tree" THEN "raised" ELSE @]]
  /\ UNCHANGED <<order, pushes, progress, scan, nTokens, cancel, scanState, runVars, hist, exhausted,
                 appVars, listVars, sessionVars>>

\* fetchWithRetry returns the tree response to call q (ok: a 2xx; otherwise any
\* other status that is no rate-limit rejection); more: the tree holds a
\* candidate file.
TreeAnswered(q, ok, more) ==
  /\ InFlight(q)
  /\ call[q].pc = "tree"
  /\ call[q].token \notin exhausted
  /\ more => call[q].files < MaxFiles
  /\ LET c == [call[q] EXCEPT !.triedTokens = ResetTried(@)]
     IN  call' = [call EXCEPT ![q] =
           IF ~ok THEN TreeNotOk(c)
           ELSE IF more THEN NextRequest(c, GetToken(nTokens, tokenIndex))
           ELSE Finish(c)]
  /\ UNCHANGED <<order, pushes, progress, scan, nTokens, tokenIndex, cancel, scanState, runVars, hist,
                 exhausted, appVars, listVars, sessionVars>>

\* fetchWithRetry returns the content response of a candidate file to call q
\* (marker: its text holds the marker); more: another candidate file follows.
FileAnswered(q, ok, marker, more) ==
  /\ InFlight(q)
  /\ call[q].pc = "file"
  /\ call[q].token \notin exhausted
  /\ more => call[q].files < MaxFiles
  /\ LET c == [call[q] EXCEPT !.triedTokens = ResetTried(@),
                              !.found = @ \/ (ok /\ marker)]
     IN  call' = [call EXCEPT ![q] =
           IF more THEN NextRequest(c, GetToken(nTokens, tokenIndex))
           ELSE Finish(c)]
  /\ UNCHANGED <<order, pushes, progress, scan, nTokens, tokenIndex, cancel, scanState, runVars, hist,
                 exhausted, appVars, listVars, sessionVars>>

\* fetchWithRetry raises a NetworkError to call q (its attempts are used up, or
\* the failure is not retryable); nothing in checkRepoForJfrog catches it.
TransportFails(q) ==
  /\ InFlight(q)
  /\ call' = [call EXCEPT ![q] =
       [Done(call[q], "network") EXCEPT !.treeFailed =
          IF call[q].pc = "tree" THEN "raised" ELSE @]]
  /\ UNCHANGED <<order, pushes, progress, scan, nTokens, tokenIndex, cancel, scanState, runVars, hist,
                 exhausted, appVars, listVars, sessionVars>>

\* The server's quota of credential t runs out while the batch is in flight:
\* from now on its requests are answered 403 with remaining = 0.
QuotaRunsOut(t) ==
  /\ t \in 1..nTokens
  /\ t \notin exhausted
  /\ \E q \in DOMAIN call : InFlight(q)
  /\ exhausted' = exhausted \cup {t}
  /\ UNCHANGED <<order, pushes, progress, scan, nTokens, tokenIndex, cancel, scanState, runVars, hist,
                 call, appVars, listVars, sessionVars>>

\* A batch of Config Scanner calls launched at once over a pool of n
\* credentials, some of them exhausted, the shared index anywhere.
InitRot ==
  /\ order = <<>>
  /\ pushes = 0
  /\ progress = NoProgress
  /\ scan = NoScan
  /\ nTokens \in 0..MaxTokens
  /\ tokenIndex \in 0..(IF nTokens = 0 THEN 0 ELSE nTokens - 1)
  /\ cancel = FALSE
  /\ scanState = <<>>
  /\ pc = "batch"
  /\ resumeState = FALSE
  /\ page = 1
  /\ allRepos = <<>>
  /\ currentScanState = <<>>
  /\ pendingRepos = <<>>
  /\ i = 0
  /\ concurrency = 0
  /\ results = <<>>
  /\ batchResults = <<>>
  /\ scanResult = NoResult
  /\ phase = "checking-lfs"
  /\ absorbed = FALSE
  /\ settledAtFailure = 0
  /\ exhausted \in SUBSET (IF nTokens = 0 THEN {0} ELSE 1..nTokens)
  /\ ghesHost = ""
  /\ created = 0
  /\ downloaded = <<>>
  /\ listError = "none"
  /\ existingRepos = NotGiven
  /\ req = NewRequest
  /\ requested = FALSE
  /\ fileResult = "none"
  /\ lateInFlight = FALSE
  /\ call \in {[q \in 1..m |-> NewCall(GetToken(nTokens, tokenIndex))] : m \in 1..MaxCalls}

NextRot ==
  \/ \E q \in 1..MaxCalls : RateLimited(q)
  \/ \E q \in 1..MaxCalls, ok \in BOOLEAN, more \in BOOLEAN : TreeAnswered(q, ok, more)
  \/ \E q \in 1..MaxCalls, ok \in BOOLEAN, marker \in BOOLEAN, more \in BOOLEAN :
       FileAnswered(q, ok, marker, more)
  \/ \E q \in 1..MaxCalls : TransportFails(q)
  \/ \E t \in 1..MaxTokens : QuotaRunsOut(t)

SpecRot == InitRot /\ [][NextRot]_vars

\* Every network call settles: a step of the batch is taken while one is
\* possible.
SpecRotLive == SpecRot /\ WF_vars(NextRot)

\* --------------------------------------------------------- SpecList

\* Mutant: an existing list is never taken.
UsesExisting_Never(existing) == FALSE

\* fetchOrgRepos: existingRepos && existingRepos.length > 0
UsesExisting(existing) == existing.given /\ Len(existing.repos) > 0

\* Mutant: every non-OK page response raises a NetworkError.
NotOkError_AlwaysNetwork(status) == "network"

\* fetchOrgRepos: the error it raises for a page response that is not OK.
NotOkError(status) == IF status = 404 THEN "notfound" ELSE "network"

\* Mutant: the page number stays.
NextPage_Same(p) == p

\* fetchOrgRepos: page++
NextPage(p) == p + 1

\* fetchOrgRepos: the page was full (neither empty nor shorter than perPage).
HasMore(repos) == Len(repos) # 0 /\ ~(Len(repos) < perPage)

\* The lists a caller may hold from an earlier listing of the organization.
ExistingLists ==
  {NotGiven} \cup {[given |-> TRUE, repos |-> MapRepos(SubSeq(order, 1, n))] :
                     n \in 0..Len(order)}

\* fetchOrgRepos(..., existingRepos, ...) up to its first await: the existing
\* list returned at once, or the request for page 1 sent.
ListerEnter(existing) ==
  /\ pc \in {"idle", "listed"}
  /\ existingRepos' = existing
  /\ listError' = "none"
  /\ phase' = "fetching-repos"
  /\ page' = 1
  /\ req' = NewRequest
  /\ IF UsesExisting(existing)
     THEN /\ pc' = "listed"
          /\ allRepos' = existing.repos
          /\ requested' = FALSE
     ELSE /\ pc' = "listing"
          /\ allRepos' = <<>>
          /\ requested' = TRUE
  /\ UNCHANGED <<order, pushes, progress, scan, nTokens, tokenIndex, cancel, scanState, resumeState,
                 currentScanState, pendingRepos, i, concurrency, results,
                 batchResults, scanResult, hist, rotVars, ghesHost, created,
                 downloaded, sessionVars>>

\* fetchOrgRepos raises e after a response of the given status (0: none) of
\* a transport call that ended as fin; handleScan's catch sets the phase by
\* the class of the error.
ListerRaises(e, status, fin) ==
  /\ pc' = "idle"
  /\ listError' = e
  /\ phase' = IF e \in {"ratelimit", "network"} THEN "partial" ELSE "error"
  /\ page' = 1
  /\ allRepos' = <<>>
  /\ req' = [req EXCEPT !.status = status, !.last = fin,
                         !.lastError = IF fin.ended = "raised" THEN fin.lastError
                                       ELSE IF Retried(status) THEN "server" ELSE @]
  /\ UNCHANGED tokenIndex

\* The server answers the request in flight with a status and an
\* x-ratelimit-remaining header: fetchWithRetry backs off or returns the
\* response, fetchWithTokenRotation rotates, raises or returns it, and
\* fetchOrgRepos raises on a response that is not OK or takes the page.
ListerResponse(status, header) ==
  /\ pc = "listing"
  /\ ~req.waiting
  /\ (GetToken(nTokens, tokenIndex) \in exhausted) <=>
       (status = 403 /\ Remaining(header) = 0)
  /\ LET tried == AddTried(req.triedTokens, GetToken(nTokens, tokenIndex))
         repos == ServerPage(page)
         remaining == Remaining(header)
         fin == Returned(req, status)
     IN  IF Retried(status) /\ req.attempt < MAX_RETRIES - 1
         THEN /\ req' = BacksOff(req, "server", status)
              /\ UNCHANGED <<pc, page, allRepos, tokenIndex, listError, phase>>
         ELSE IF status = 403 /\ remaining = 0
         THEN IF CanRotate(tried, nTokens)
              THEN /\ tokenIndex' = RotateToken(nTokens, tokenIndex)
                   /\ req' = [NewRequest EXCEPT !.triedTokens = tried, !.status = status,
                                                !.last = fin, !.header = header]
                   /\ UNCHANGED <<pc, page, allRepos, listError, phase>>
              ELSE ListerRaises("ratelimit", status, fin)
         ELSE IF ~Ok(status)
         THEN ListerRaises(NotOkError(status), status, fin)
         ELSE /\ allRepos' = allRepos \o MapRepos(repos)
              /\ req' = [NewRequest EXCEPT !.status = status, !.last = fin]
              /\ IF HasMore(repos)
                 THEN page' = NextPage(page) /\ pc' = pc
                 ELSE page' = page /\ pc' = "listed"
              /\ UNCHANGED <<tokenIndex, listError, phase>>
  /\ UNCHANGED <<order, pushes, progress, scan, nTokens, cancel, scanState, resumeState,
                 currentScanState, pendingRepos, i, concurrency, results,
                 batchResults, scanResult, hist, rotVars, ghesHost, created,
                 downloaded, existingRepos, requested, sessionVars>>

\* fetch raises in the request in flight: a timeout (AbortError) or another
\* exception is retried after a sleep while attempts are left, a
\* cross-origin rejection ("cors") is raised at once.
ListerThrows(kind) ==
  /\ pc = "listing"
  /\ ~req.waiting
  /\ IF ThrowsAtOnce(kind)
     THEN ListerRaises("network", 0, ThrownAtOnce(req))
     ELSE IF req.attempt < MAX_RETRIES - 1
     THEN /\ req' = BacksOff(req, kind, 0)
          /\ UNCHANGED <<pc, page, allRepos, tokenIndex, listError, phase>>
     ELSE ListerRaises("network", 0, ThrownAfterLoop(req, kind, 0))
  /\ UNCHANGED <<order, pushes, progress, scan, nTokens, cancel, scanState, resumeState,
                 currentScanState, pendingRepos, i, concurrency, results,
                 batchResults, scanResult, hist, rotVars, ghesHost, created,
                 downloaded, existingRepos, requested, sessionVars>>

\* The sleep before a retry ends: the next attempt is sent.
ListerBackoffEnds ==
  /\ pc = "listing"
  /\ req.waiting
  /\ req' = [req EXCEPT !.waiting = FALSE, !.attempt = @ + 1]
  /\ UNCHANGED <<order, pushes, progress, scan, nTokens, tokenIndex, cancel, scanState, runVars, hist,
                 rotVars, appVars, existingRepos, requested, sessionVars>>

InitList ==
  /\ order \in {[k \in 1..n |-> k] : n \in 0..MaxRepos}
  /\ pushes = 0
  /\ progress = NoProgress
  /\ scan = NoScan
  /\ nTokens \in 0..MaxTokens
  /\ tokenIndex \in 0..(IF nTokens = 0 THEN 0 ELSE nTokens - 1)
  /\ cancel = FALSE
  /\ scanState = <<>>
  /\ pc = "idle"
  /\ resumeState = FALSE
  /\ page = 1
  /\ allRepos = <<>>
  /\ currentScanState = <<>>
  /\ pendingRepos = <<>>
  /\ i = 0
  /\ concurrency = 0
  /\ results = <<>>
  /\ batchResults = <<>>
  /\ scanResult = NoResult
  /\ phase = "idle"
  /\ absorbed = FALSE
  /\ settledAtFailure = 0
  /\ exhausted \in SUBSET (IF nTokens = 0 THEN {0} ELSE 1..nTokens)
  /\ call = <<>>
  /\ ghesHost = ""
  /\ created = 0
  /\ downloaded = <<>>
  /\ listError = "none"
  /\ existingRepos = NotGiven
  /\ req = NewRequest
  /\ requested = FALSE
  /\ fileResult = "none"
  /\ lateInFlight = FALSE

NextList ==
  \/ \E existing \in ExistingLists : ListerEnter(existing)
  \/ \E status \in {200, 401, 403, 404, 503}, header \in Headers :
       ListerResponse(status, header)
  \/ \E kind \in {"timeout", "cors", "other"} : ListerThrows(kind)
  \/ ListerBackoffEnds
  \/ \E r \in 1..MaxRepos : Push(r)

SpecList == InitList /\ [][NextList]_vars

\* Every request is eventually answered and every sleep ends.
SpecListLive == SpecList /\ WF_vars(NextList)

\* ---------------------------------------------------------- SpecApp

\* The properties parseScanState tests.
Checked == {"orgName", "allRepos", "scannedRepoIds", "pendingRepoIds", "jfrogRepos"}

\* The texts made from a checkpoint file by cutting it short, by removing one
\* property, or by giving one tested property a value of another type.
Damaged(content) ==
  {Garbage}
    \cup {Text(JObj([k \in DOMAIN content.json.v \ {x} |-> content.json.v[k]])) :
            x \in Checked \cup {"isComplete"}}
    \cup {Text(JObj([content.json.v EXCEPT ![x] = bad])) :
            x \in Checked, bad \in {JNum(1)}}

\* The files the user may select: the checkpoint of the Scan State held (as
\* handleExportState writes it) and the one the last run downloaded, damaged
\* copies of them, and files that hold no object.
Files ==
  LET written == {Stringify(s) : s \in Range(scanState) \cup Range(downloaded)}
  IN  written
        \cup UNION {Damaged(content) : content \in written}
        \cup {Garbage, Text(JNull), Text(JNum(1)), Text(JStr("acme")), Text(JArr(<<>>))}

\* handleFileSelect with a file of the given text.
handleFileSelect(content) ==
  /\ pc = "idle"
  /\ LET parsed == parseScanState(content)
     IN  IF parsed.raised
         THEN /\ fileResult' = "raised"
              /\ phase' = "error"
              /\ UNCHANGED <<scanState, ghesHost>>
         ELSE IF parsed.state # <<>>
         THEN /\ fileResult' = "loaded"
              /\ scanState' = parsed.state
              /\ ghesHost' = IF parsed.state[1].ghesHost = "none" THEN ""
                             ELSE parsed.state[1].ghesHost
              /\ phase' = IF parsed.state[1].isComplete THEN "complete" ELSE "partial"
         ELSE /\ fileResult' = "invalid"
              /\ phase' = "error"
              /\ UNCHANGED <<scanState, ghesHost>>
  /\ UNCHANGED <<order, pushes, progress, scan, nTokens, tokenIndex, cancel, pc, resumeState, page,
                 allRepos, currentScanState, pendingRepos, i, concurrency, results,
                 batchResults, scanResult, hist, rotVars, created, downloaded,
                 listError, listVars, lateInFlight>>

\* handleScan() while a Scan State is held: a fresh scan of the organization.
Restart ==
  /\ scanState # <<>>
  /\ created < MaxScans
  /\ handleScanFresh

\* Mutant: a call that settles late commits its result to the state held.
LateSettle_Commits ==
  /\ lateInFlight
  /\ lateInFlight' \in BOOLEAN
  /\ scanState # <<>>
  /\ scanState' = <<CommitResult(scanState[1], NoMatch(scanState[1].allRepos[1]))>>
  /\ UNCHANGED <<order, pushes, progress, scan, nTokens, tokenIndex, cancel, runVars, hist,
                 rotVars, appVars, listVars, fileResult>>

\* A Config Scanner call of a batch that failed settles: Promise.all has
\* rejected already, the call's result is dropped. Other such calls may remain.
LateSettle ==
  /\ lateInFlight
  /\ lateInFlight' \in BOOLEAN
  /\ UNCHANGED <<order, pushes, progress, scan, nTokens, tokenIndex, cancel, scanState, runVars, hist,
                 rotVars, appVars, listVars, fileResult>>

InitApp ==
  /\ order \in {[k \in 1..n |-> k] : n \in 0..MaxAppRepos}
  /\ pushes = 0
  /\ progress = NoProgress
  /\ scan = NoScan
  /\ nTokens \in 0..1
  /\ tokenIndex = 0
  /\ cancel = FALSE
  /\ scanState = <<>>
  /\ pc = "idle"
  /\ resumeState = FALSE
  /\ page = 1
  /\ allRepos = <<>>
  /\ currentScanState = <<>>
  /\ pendingRepos = <<>>
  /\ i = 0
  /\ concurrency = 0
  /\ results = <<>>
  /\ batchResults = <<>>
  /\ scanResult = NoResult
  /\ phase = "idle"
  /\ absorbed = FALSE
  /\ settledAtFailure = 0
  /\ exhausted = {}
  /\ call = <<>>
  /\ ghesHost \in HostTexts
  /\ created = 0
  /\ downloaded = <<>>
  /\ listError = "none"
  /\ existingRepos = NotGiven
  /\ req = NewRequest
  /\ requested = FALSE
  /\ fileResult = "none"
  /\ lateInFlight = FALSE

NextApp ==
  \/ StartScan
  \/ ListPage
  \/ \E e \in ErrorKinds \cup {"notfound"} : ListFail(e)
  \/ Pause
  \/ \E k \in 1..ConcurrencyWithToken, out \in {"ok", "nonok"} : Settle(k, out)
  \/ \E k \in 1..ConcurrencyWithToken, e \in ErrorKinds : Raise(k, e)
  \/ Wake
  \/ Resume
  \/ Restart
  \/ LateSettle
  \/ \E content \in Files : handleFileSelect(content)

SpecApp == InitApp /\ [][NextApp]_vars

\* --------------------------------------------------------- SpecScan

\* The characters of a text: a line feed, a blank, another character, and the
\* five letters of the marker, written in lower case or with capitals.
Chars == {"nl", "sp", "x", "jfrog", "JFROG"}

\* The contents a candidate file may have.
Contents == UNION {[1..n -> Chars] : n \in 0..MaxLen}

\* Mutant: the comparison is case-sensitive.
toLowerCase_Identity(t) == t

\* The lower-case form of a part of a text written with capitals.
Lower(c) ==
  CASE c = "JFROG" -> "jfrog"
    [] c = "HTTPS://" -> "https://"
    [] c = "GITHUB.COM" -> "github.com"
    [] OTHER -> c

\* String.prototype.toLowerCase
toLowerCase(t) == [n \in DOMAIN t |-> Lower(t[n])]

\* t.includes('jfrog')
IncludesMarker(t) == Includes(t, "jfrog")

\* content.split('\n')
RECURSIVE Split(_)
Split(t) ==
  IF ~Includes(t, "nl") THEN <<t>>
  ELSE LET n == CHOOSE m \in DOMAIN t :
                  t[m] = "nl" /\ \A l \in 1..(m - 1) : t[l] # "nl"
       IN  <<SubSeq(t, 1, n - 1)>> \o Split(SubSeq(t, n + 1, Len(t)))

RECURSIVE TrimStart(_)
TrimStart(t) == IF t # <<>> /\ t[1] = "sp" THEN TrimStart(Tail(t)) ELSE t

RECURSIVE TrimEnd(_)
TrimEnd(t) ==
  IF t # <<>> /\ t[Len(t)] = "sp" THEN TrimEnd(SubSeq(t, 1, Len(t) - 1)) ELSE t

\* String.prototype.trim
Trim(t) == TrimEnd(TrimStart(t))

\* The paths of a tree, in parts; the last part is what endsWith looks at.
Paths == {<<".lfsconfig">>, <<"sub/", ".lfsconfig">>, <<".lfsconfig", ".bak">>}

\* The entries a tree may hold: files, and a directory named like the file.
Items ==
  {[type |-> "blob", path |-> p] : p \in Paths}
    \cup {[type |-> "tree", path |-> <<"dir/", ".lfsconfig">>]}

\* The trees a repository may have: entries with different paths.
Trees ==
  {t \in UNION {[1..n -> Items] : n \in 0..MaxItems} :
     \A a, b \in DOMAIN t : a # b => t[a].path # t[b].path}

\* item.type === 'blob' && item.path.endsWith('.lfsconfig')
IsLfsConfig(item) ==
  item.type = "blob" /\ item.path # <<>> /\ item.path[Len(item.path)] = ".lfsconfig"

\* checkRepoForJfrog: the body of for (const line of lines), from line n on,
\* on the locals jfrogUrls and configLocations (c holds both).
RECURSIVE ScanLines(_, _, _, _)
ScanLines(c, path, lines, n) ==
  IF n > Len(lines) THEN c
  ELSE LET line == lines[n]
       IN  IF IncludesMarker(toLowerCase(line)) /\ ~Includes(c.jfrogUrls, Trim(line))
           THEN ScanLines(
                  [c EXCEPT !.jfrogUrls = Append(@, Trim(line)),
                            !.configLocations =
                              IF ~Includes(@, path) THEN Append(@, path) ELSE @],
                  path, lines, n + 1)
           ELSE ScanLines(c, path, lines, n + 1)

\* Mutant: a content served with another credential than the first of the
\* pool is not scanned.
ScanContent_ByCredential(c, path, content) ==
  IF IncludesMarker(toLowerCase(content)) /\ tokenIndex = 0
  THEN ScanLines(c, path, Split(content), 1)
  ELSE c

\* checkRepoForJfrog: if (content.toLowerCase().includes('jfrog')) {...}
ScanContent(c, path, content) ==
  IF IncludesMarker(toLowerCase(content))
  THEN ScanLines(c, path, Split(content), 1)
  ELSE c

\* checkRepoForJfrog returns: {...repo, hasJfrog: jfrogUrls.length > 0,
\* jfrogUrls, configLocations}
ScanReturns(c) ==
  [c EXCEPT !.pc = "done",
            !.hasJfrog = IF Len(c.jfrogUrls) > 0 THEN "true" ELSE "false"]

\* The tree request is answered. Not OK: no match. OK: the candidate files are
\* filtered from the tree; none: no match, else the first is requested.
ScanTreeAnswered(ok, tree) ==
  /\ scan.pc = "tree"
  /\ LET files == SelectSeq(tree, IsLfsConfig)
     IN  scan' = IF ~ok \/ Len(files) = 0
                 THEN [scan EXCEPT !.pc = "done", !.hasJfrog = "false"]
                 ELSE [scan EXCEPT !.pc = "file", !.files = files, !.k = 1]
  /\ UNCHANGED <<order, pushes, progress, nTokens, tokenIndex, cancel, scanState, runVars, hist,
                 rotVars, appVars, listVars, sessionVars>>

\* The content request of candidate file k is answered. Not OK: the file is
\* skipped. OK: its text is scanned. Then the next file is requested, or the
\* call returns.
ScanFileAnswered(ok, content) ==
  /\ scan.pc = "file"
  /\ LET file == scan.files[scan.k]
         c == [(IF ok THEN ScanContent(scan, file.path, content) ELSE scan)
                 EXCEPT !.fetched = Append(@, [path |-> file.path, ok |-> ok,
                                               content |-> content])]
     IN  scan' = IF scan.k < Len(scan.files)
                 THEN [c EXCEPT !.k = @ + 1]
                 ELSE ScanReturns(c)
  /\ UNCHANGED <<order, pushes, progress, nTokens, tokenIndex, cancel, scanState, runVars, hist,
                 rotVars, appVars, listVars, sessionVars>>

\* fetchWithTokenRotation raises in the request in flight (rate limit,
\* transport failure): the call raises.
ScanRaises ==
  /\ scan.pc \in {"tree", "file"}
  /\ scan' = [scan EXCEPT !.pc = "raised"]
  /\ UNCHANGED <<order, pushes, progress, nTokens, tokenIndex, cancel, scanState, runVars, hist,
                 rotVars, appVars, listVars, sessionVars>>

\* The request in flight is rejected for rate limit and re-sent with the next
\* credential, or another call of the batch rotates the shared index: the
\* request is served by another credential.
ScanRotates ==
  /\ scan.pc \in {"tree", "file"}
  /\ tokenIndex' = RotateToken(nTokens, tokenIndex)
  /\ UNCHANGED <<order, pushes, progress, scan, nTokens, cancel, scanState, runVars, hist,
                 rotVars, appVars, listVars, sessionVars>>

\* One call of checkRepoForJfrog, its tree request in flight, over a pool of
\* n credentials.
InitScanOver(n) ==
  /\ order = <<>>
  /\ pushes = 0
  /\ progress = NoProgress
  /\ scan = [NoScan EXCEPT !.pc = "tree"]
  /\ nTokens = n
  /\ tokenIndex = 0
  /\ cancel = FALSE
  /\ scanState = <<>>
  /\ pc = "batch"
  /\ resumeState = FALSE
  /\ page = 1
  /\ allRepos = <<>>
  /\ currentScanState = <<>>
  /\ pendingRepos = <<>>
  /\ i = 0
  /\ concurrency = 0
  /\ results = <<>>
  /\ batchResults = <<>>
  /\ scanResult = NoResult
  /\ phase = "checking-lfs"
  /\ absorbed = FALSE
  /\ settledAtFailure = 0
  /\ exhausted = {}
  /\ call = <<>>
  /\ ghesHost = ""
  /\ created = 0
  /\ downloaded = <<>>
  /\ listError = "none"
  /\ existingRepos = NotGiven
  /\ req = NewRequest
  /\ requested = FALSE
  /\ fileResult = "none"
  /\ lateInFlight = FALSE

\* One call, no credential set.
InitScan == InitScanOver(0)

NextScan ==
  \/ \E ok \in BOOLEAN, tree \in Trees : ScanTreeAnswered(ok, tree)
  \/ \E content \in Contents : ScanFileAnswered(TRUE, content)
  \/ ScanFileAnswered(FALSE, <<>>)
  \/ ScanRaises

SpecScan == InitScan /\ [][NextScan]_vars

\* One call over the whole pool, the shared index rotated by the call and by
\* the other calls of its batch.
InitScanRot == InitScanOver(MaxTokens)

NextScanRot ==
  \/ NextScan
  \/ ScanRotates

SpecScanRot == InitScanRot /\ [][NextScanRot]_vars

\* ------------------------------------------------- claims under Spec

\* The Scan State objects alive: the one the React state holds and the one
\* of the run in progress.
ScanStates == Range(scanState) \cup Range(currentScanState)

Scanned_(s) == Range(s.scannedRepoIds)
Pending_(s) == Range(s.pendingRepoIds)
MatchedIds(s) == Range(RepoIds(s.jfrogRepos))

\* C1: in every Scan State of a scan started fresh, whatever batch commits,
\* pauses, failures, resumes and completion it went through, scannedRepoIds
\* and pendingRepoIds are disjoint, together they hold exactly the ids of
\* allRepos, and every repository of jfrogRepos has its id in scannedRepoIds.
C1_ScanStateInvariant ==
  \A s \in ScanStates :
    /\ Scanned_(s) \cap Pending_(s) = {}
    /\ Scanned_(s) \cup Pending_(s) = Range(RepoIds(s.allRepos))
    /\ MatchedIds(s) \subseteq Scanned_(s)

\* A resumed run, after a failure, with a match committed and work left.
C1_Witness ==
  /\ pc = "sleep"
  /\ resumeState
  /\ scanState # <<>>
  /\ scanState[1].lastError # "none"
  /\ scanState[1].jfrogRepos # <<>>
  /\ Len(scanState[1].scannedRepoIds) > ConcurrencyWithoutToken
  /\ scanState[1].pendingRepoIds # <<>>

\* One uninterrupted pass over repos with batches of conc, every Config Scanner
\* call answered by the server's content.
RECURSIVE OnePassFrom(_, _, _, _)
OnePassFrom(s, repos, idx, conc) ==
  IF idx >= Len(repos)
  THEN MarkComplete(s)
  ELSE OnePassFrom(CommitBatch(s, [k \in DOMAIN Slice(repos, idx, idx + conc) |->
                                     Scanned(Slice(repos, idx, idx + conc)[k])]),
                   repos, idx + conc, conc)

OnePass(repos) == OnePassFrom(NewScanState(repos), repos, 0, ConcurrencyWithToken)

\* C2: with Config Scanner results fixed by the server's content, a scan that
\* reaches completion through any pauses, failures and resumes, with either
\* batch size in each run, ends with the scanned-id set and the matched set of
\* the single uninterrupted pass over the same repository list.
C2_ResumptionEquivalence ==
  \A s \in ScanStates :
    (s.isComplete /\ ~absorbed) =>
      /\ Scanned_(s) = Scanned_(OnePass(s.allRepos))
      /\ Range(s.jfrogRepos) = Range(OnePass(s.allRepos).jfrogRepos)

\* A scan completed by a resumed run, with matches, without an absorbed failure.
C2_Witness ==
  /\ scanResult.kind = "complete"
  /\ resumeState
  /\ ~absorbed
  /\ scanState[1].jfrogRepos # <<>>
  /\ Len(scanState[1].scannedRepoIds) > ConcurrencyWithToken

\* C3: the step in which a batch fails leaves scannedRepoIds, pendingRepoIds
\* and jfrogRepos of the returned Scan State as the last committed batch left
\* them, whatever members of the failed batch had already settled.
C3_FailedBatchCommitsNothing ==
  [][(pc = "batch" /\ scanResult'.kind \in ErrorKinds) =>
       /\ scanState'[1].scannedRepoIds = currentScanState[1].scannedRepoIds
       /\ scanState'[1].pendingRepoIds = currentScanState[1].pendingRepoIds
       /\ scanState'[1].jfrogRepos = currentScanState[1].jfrogRepos]_vars

\* A failed batch, after a committed one, some of whose members had settled.
C3_Witness ==
  /\ scanResult.kind \in ErrorKinds
  /\ settledAtFailure > 1
  /\ scanState[1].scannedRepoIds # <<>>
  /\ Len(scanState[1].pendingRepoIds) > settledAtFailure

\* C4: a resumed run takes as its repositories to scan only repositories whose
\* id is in the pending set of the checkpoint it starts from and none whose id
\* that checkpoint holds as scanned, and every Config Scanner call of a run is
\* for one of the repositories the run took.
C4_ResumeScansPendingOnly ==
  /\ [][(pc = "idle" /\ pc' = "batch") =>
          \A r \in Range(pendingRepos') :
            /\ r.id \in Pending_(scanState[1])
            /\ r.id \notin Scanned_(scanState[1])]_vars
  /\ [](pc = "batch" =>
          \A k \in DOMAIN batchResults :
            /\ k \in DOMAIN Batch
            /\ batchResults[k].value.id = Batch[k].id)

\* A later batch of a resumed run whose checkpoint held scanned repositories.
C4_Witness ==
  /\ pc = "batch"
  /\ resumeState
  /\ Len(scanState[1].scannedRepoIds) > Len(pendingRepos)
  /\ i > 0

\* C5: a run that ends in a batch failure returns isPartial = true, the error
\* recorded in the state, a non-empty pending set disjoint from scanned, and
\* for a rate-limit failure the reset instant.
C5_FailureResult ==
  scanResult.kind \in ErrorKinds =>
    /\ scanResult.isPartial
    /\ scanState[1].lastError = scanResult.kind
    /\ scanState[1].pendingRepoIds # <<>>
    /\ Scanned_(scanState[1]) \cap Pending_(scanState[1]) = {}
    /\ (scanResult.kind = "ratelimit" => scanResult.rateLimitReset)

\* C9: run returns isPartial = false exactly when it has set isComplete; a
\* complete state has an empty pending set; a partial result has isComplete =
\* false and a non-empty pending set.
C9_CompleteIffNotPartial ==
  /\ scanResult.kind # "none" =>
       /\ scanResult.isPartial = ~scanState[1].isComplete
       /\ scanResult.isPartial => scanState[1].pendingRepoIds # <<>>
  /\ \A s \in ScanStates : s.isComplete => s.pendingRepoIds = <<>>

\* C10: no id occurs twice in scannedRepoIds and no repository twice in
\* jfrogRepos.
C10_NoDuplicates ==
  \A s \in ScanStates : NoDup(s.scannedRepoIds) /\ NoDup(s.jfrogRepos)

\* C13: when cancellation is asserted at a batch boundary the run launches no
\* Config Scanner call and returns paused, the Scan State being the one the
\* last committed batch left, field by field: a pause records no error, and
\* a run returns paused only when cancellation was asserted.
C13_PauseAtBoundary ==
  [][/\ (pc = "sleep" /\ cancel /\ pc' # "sleep") =>
          /\ pc' = "idle"
          /\ scanResult'.kind = "paused"
          /\ scanResult'.wasPaused
          /\ batchResults' = <<>>
          /\ scanState' = currentScanState
     /\ (scanResult'.kind = "paused" /\ scanResult.kind # "paused") =>
          /\ cancel
          /\ ~scanState'[1].isComplete
          /\ scanState'[1].lastError =
               IF currentScanState = <<>> THEN "none"
               ELSE currentScanState[1].lastError]_vars

\* A resumed run paused between two batches, the state still holding the
\* error of the earlier failure.
C13_Witness ==
  /\ scanResult.kind = "paused"
  /\ resumeState
  /\ scanState[1].lastError # "none"
  /\ Len(scanState[1].scannedRepoIds) > ConcurrencyWithoutToken
  /\ scanState[1].pendingRepoIds # <<>>

\* C14: every stop of a scan before completion that is no user pause - a
\* failure of the Lister or of a batch - leaves the checkpoint auto-persisted,
\* and a pause persists nothing.
C14_AutoPersist ==
  [][(pc # "idle" /\ pc' = "idle") =>
       /\ (scanResult'.kind \in ErrorKinds \/ listError' # "none") => downloaded' # <<>>
       /\ scanResult'.kind = "paused" => downloaded' = <<>>]_vars

\* C15: when the Lister fails after it has fetched a page, a Scan State
\* holding the repositories listed so far is available.
C15_CheckpointOfListedPages ==
  [][(pc = "listing" /\ listError' # "none" /\ allRepos # <<>>) =>
       /\ scanState' # <<>>
       /\ scanState'[1].allRepos = allRepos]_vars

\* C17: a fresh scan that runs to completion without a pause or a failure,
\* every Config Scanner call answered with the repository's content, over an
\* organization of N repositories of which M hold the marker, ends with N
\* scanned ids, M matched repositories, isComplete set, nothing pending, and
\* a report of one header line and M rows.
C17_FullScan ==
  (scanResult.kind = "complete" /\ ~resumeState /\ ~absorbed) =>
    /\ Len(scanState[1].scannedRepoIds) = Len(order)
    /\ Len(scanState[1].jfrogRepos) = Cardinality(Marked \cap Range(order))
    /\ scanState[1].isComplete
    /\ scanState[1].pendingRepoIds = <<>>
    /\ Len(handleExport(scanResult.repos)) = Cardinality(Marked \cap Range(order)) + 1

\* C25: a cancellation asserted while a batch is in flight changes nothing but
\* the flag; the members of the batch go on settling; when the last one has
\* settled every repository of the batch is committed (its id in
\* scannedRepoIds, not in pendingRepoIds), and the run does not return paused
\* in a step taken with the batch in flight: it goes to the boundary, where it
\* returns paused with the state the commit left.
C25_PauseLetsBatchFinish ==
  [][/\ (pc = "batch" /\ ~cancel /\ cancel') =>
          UNCHANGED <<runVars, scanState, hist, downloaded>>
     /\ (pc = "batch" /\ cancel) =>
          /\ scanResult'.kind # "paused"
          /\ pc' = "batch" =>
               /\ currentScanState' = currentScanState
               /\ \A k \in DOMAIN batchResults :
                    batchResults[k].done => batchResults'[k] = batchResults[k]
          /\ (pc' # "batch" /\ scanResult'.kind \notin ErrorKinds) =>
               \A k \in DOMAIN Batch :
                 LET s == IF pc' = "sleep" THEN currentScanState'[1] ELSE scanState'[1]
                 IN  /\ Includes(s.scannedRepoIds, Batch[k].id)
                     /\ ~Includes(s.pendingRepoIds, Batch[k].id)
     /\ (pc = "sleep" /\ cancel /\ pc' # "sleep") =>
          /\ scanResult'.kind = "paused"
          /\ scanState' = currentScanState
          /\ \A k \in DOMAIN Batch :
               Includes(scanState'[1].scannedRepoIds, Batch[k].id)]_vars

\* Cancellation is asserted while a batch that is not the last one is in
\* flight, some of its members settled and some not.
C25_Witness ==
  /\ pc = "batch"
  /\ cancel
  /\ i + concurrency < Len(pendingRepos)
  /\ \E k \in DOMAIN batchResults : batchResults[k].done
  /\ \E k \in DOMAIN batchResults : ~batchResults[k].done

\* C26 as claimed: whenever the run is not inside a batch - it has committed
\* it or has returned - no Config Scanner call of a batch is still in flight.
C26_FanIn ==
  pc # "batch" => ~lateInFlight

\* C27 as claimed: in every Scan State of a scan started fresh, scannedRepoIds
\* is a prefix of the ids of allRepos in listing order and pendingRepoIds is
\* the suffix that remains (empty once the scan is complete).
C27_PrefixAndSuffix ==
  \A s \in ScanStates :
    LET ids == RepoIds(s.allRepos)
        n == Len(s.scannedRepoIds)
    IN  /\ n <= Len(ids)
        /\ s.scannedRepoIds = SubSeq(ids, 1, n)
        /\ s.pendingRepoIds = SubSeq(ids, n + 1, Len(ids))

\* C28 as claimed: once the id of a repository is in scannedRepoIds, its entry
\* in allRepos carries yes or no, never unknown.
C28_ScannedEntryIsFlagged ==
  \A s \in ScanStates :
    \A k \in DOMAIN s.allRepos :
      Includes(s.scannedRepoIds, s.allRepos[k].id) => s.allRepos[k].hasJfrog # "null"

\* C33: every batch of a run holds at most 5 repositories if a credential is
\* available when the run starts and at most 2 otherwise, every batch but the
\* last holds exactly that many, and never more than that many Config Scanner
\* calls of the run are in flight at once.
C33_BatchSize ==
  pc = "batch" =>
    /\ concurrency = (IF nTokens > 0 THEN ConcurrencyWithToken
                                      ELSE ConcurrencyWithoutToken)
    /\ i % concurrency = 0
    /\ Len(batchResults) >= 1
    /\ Len(batchResults) <= concurrency
    /\ i + concurrency < Len(pendingRepos) => Len(batchResults) = concurrency
    /\ Cardinality({k \in DOMAIN batchResults : ~batchResults[k].done}) <= concurrency

\* The full first batch of a run with a credential, all its calls in flight,
\* a shorter last batch to follow.
C33_Witness ==
  /\ pc = "batch"
  /\ nTokens > 0
  /\ i = 0
  /\ Len(pendingRepos) > ConcurrencyWithToken
  /\ Cardinality({k \in DOMAIN batchResults : ~batchResults[k].done}) =
       ConcurrencyWithToken

\* C37: a cancellation request first asserted while the final batch of a run
\* is in flight has no effect: unless the batch fails, run commits it and
\* returns a complete, non-partial result rather than a paused one.
C37_CancelInFinalBatch ==
  [][(/\ pc = "batch"
      /\ cancel
      /\ i + concurrency >= Len(pendingRepos)
      /\ pc' # "batch"
      /\ scanResult'.kind \notin ErrorKinds) =>
       /\ pc' = "idle"
       /\ scanResult'.kind = "complete"
       /\ ~scanResult'.isPartial
       /\ ~scanResult'.wasPaused
       /\ scanState'[1].isComplete
       /\ scanState'[1].pendingRepoIds = <<>>
       /\ \A k \in DOMAIN Batch :
            Includes(scanState'[1].scannedRepoIds, Batch[k].id)]_vars

\* A run that returned complete although cancellation was asserted: it was
\* asserted after the last batch boundary.
C37_Witness ==
  /\ pc = "idle"
  /\ cancel
  /\ scanResult.kind = "complete"
  /\ scanState[1].scannedRepoIds # <<>>

\* a is an initial part of b
IsPrefix(a, b) == Len(a) <= Len(b) /\ SubSeq(b, 1, Len(a)) = a

\* C38: across any sequence of batch commits, exits and resumes, scanned and
\* matched only grow and pending only shrinks: no id moves from scanned back
\* to pending, no repository is removed from matched, and allRepos never
\* changes.
C38_Monotone ==
  [][\A s \in ScanStates : \A t \in ScanStates' :
       s.createdAt = t.createdAt =>
         /\ IsPrefix(s.scannedRepoIds, t.scannedRepoIds)
         /\ IsPrefix(s.jfrogRepos, t.jfrogRepos)
         /\ Pending_(t) \subseteq Pending_(s)
         /\ Len(t.pendingRepoIds) <= Len(s.pendingRepoIds)
         /\ Scanned_(s) \cap Pending_(t) = {}
         /\ t.allRepos = s.allRepos]_vars

\* A scan completed by a run resumed after a failure, with two matches.
C38_Witness ==
  /\ scanResult.kind = "complete"
  /\ resumeState
  /\ scanState[1].lastError # "none"
  /\ Len(scanState[1].jfrogRepos) >= 2

\* C34: after each committed batch the batch-committed callback reports a
\* count equal to the number of ids in scanned at that moment (on a resumed
\* run the repositories scanned before the resume included) and a matched
\* count equal to the number of matched repositories in the state; the
\* reported counts never decrease within a scan.
C34_ReportedCounts ==
  [][/\ (pc = "batch" /\ pc' # "batch" /\ scanResult'.kind \notin ErrorKinds) =>
          LET s == IF pc' = "sleep" THEN currentScanState'[1] ELSE scanState'[1]
          IN  /\ progress'.checked = Len(s.scannedRepoIds)
              /\ progress'.jfrogFound = Len(s.jfrogRepos)
     /\ ~(pc = "idle" /\ pc' = "listing") =>
          /\ progress'.checked >= progress.checked
          /\ progress'.jfrogFound >= progress.jfrogFound]_vars

\* A resumed run has committed a batch: the count reported exceeds the batches
\* of this run by the repositories scanned before the resume.
C34_Witness ==
  /\ pc = "sleep"
  /\ resumeState
  /\ progress.alreadyScanned > 0
  /\ progress.checked = progress.alreadyScanned + i + concurrency
  /\ progress.jfrogFound > 0

C11_RoundTrip ==
  /\ [](\A s \in ScanStates \cup Range(downloaded) :
          parseScanState(Stringify(s)) = [raised |-> FALSE, state |-> <<s>>])
  /\ [][\A s \in Range(scanState) :
          handleFileSelect(Stringify(s)) => scanState' = scanState]_vars

\* A checkpoint was loaded that holds an error, an alternate host, a match
\* and pending repositories.
C11_Witness ==
  /\ fileResult = "loaded"
  /\ scanState[1].lastError # "none"
  /\ scanState[1].ghesHost # "none"
  /\ scanState[1].jfrogRepos # <<>>
  /\ scanState[1].pendingRepoIds # <<>>

\* The texts the loader is to reject: no JSON, no object, an orgName that is
\* no string, or one of the four collections missing or no array.
Invalid(content) ==
  \/ content.kind = "garbage"
  \/ content.json.t # "object"
  \/ \E x \in Checked :
       \/ x \notin DOMAIN content.json.v
       \/ content.json.v[x].t # (IF x = "orgName" THEN "string" ELSE "array")

\* C12: the loader never raises; it reports invalid exactly for the texts
\* that are no JSON, have no textual orgName or lack one of the four
\* collections as an array, and then the Scan State held stays as it was;
\* for every other text it returns the state the text describes.
C12_LoaderNeverRaises ==
  [][\A content \in IF pc = "idle" THEN Files ELSE {} :
       \/ /\ fileResult' # "raised"
          /\ (fileResult' = "invalid") <=> Invalid(content)
          /\ fileResult' = "invalid" => scanState' = scanState
          /\ fileResult' = "loaded" =>
               /\ scanState' # <<>>
               /\ scanState'[1].orgName = content.json.v.orgName.v
               /\ Len(scanState'[1].allRepos) = Len(content.json.v.allRepos.v)
               /\ Len(scanState'[1].scannedRepoIds) = Len(content.json.v.scannedRepoIds.v)
               /\ Len(scanState'[1].pendingRepoIds) = Len(content.json.v.pendingRepoIds.v)
               /\ Len(scanState'[1].jfrogRepos) = Len(content.json.v.jfrogRepos.v)
       \/ ~handleFileSelect(content)]_vars

\* A file was rejected while a Scan State with scanned repositories was held.
C12_Witness ==
  /\ fileResult = "invalid"
  /\ scanState # <<>>
  /\ scanState[1].scannedRepoIds # <<>>
  /\ scanState[1].pendingRepoIds # <<>>

\* C16: a Scan State whose isComplete is set is never changed: in every step
\* that is not the load of a file, a Scan State alive after the step that is
\* the same scan's state (same createdAt) as a complete one alive before it is
\* equal to it in every field - whatever the step is: a fresh scan started
\* while it is held, a pause request, a resume attempt, a late settle.
C16_CompleteIsFrozen ==
  [][\/ \A s \in ScanStates :
          s.isComplete =>
            \A t \in ScanStates' : t.createdAt = s.createdAt => t = s
     \/ \E content \in Files : handleFileSelect(content) /\ fileResult' = "loaded"]_vars

\* A fresh scan is running, with a pause requested, while the state held is
\* the complete state of a scan that had failed and was resumed.
C16_Witness ==
  /\ pc = "batch"
  /\ ~resumeState
  /\ cancel
  /\ scanState # <<>>
  /\ scanState[1].isComplete
  /\ scanState[1].lastError # "none"
  /\ scanState[1].jfrogRepos # <<>>

\* --------------------------------------------- claims under SpecList

\* C18: the Lister requests the pages in increasing order: while it lists, the
\* repositories taken are those of the pages before the current one; the page
\* number moves on by one exactly when a full page was taken, the same page is
\* requested again only as a retry or after a credential rotation, and never
\* after it was taken; the Lister returns at the first short or empty page, with
\* a list as long as the pages taken together; and listing always ends.
C18_Pagination ==
  /\ [](pc = "listing" => Len(allRepos) = (page - 1) * perPage)
  /\ []((pc = "listed" /\ requested) =>
          /\ Len(allRepos) >= (page - 1) * perPage
          /\ Len(allRepos) < page * perPage)
  /\ [][pc = "listing" =>
          /\ pc' = "listing" =>
               \/ /\ page' = page + 1
                  /\ Len(ServerPage(page)) = perPage
                  /\ allRepos' = allRepos \o MapRepos(ServerPage(page))
               \/ /\ page' = page
                  /\ allRepos' = allRepos
                  /\ req' # req => (req.waiting \/ req'.waiting \/ req'.status = 403)
          /\ pc' = "listed" =>
               /\ page' = page
               /\ Len(ServerPage(page)) < perPage
               /\ allRepos' = allRepos \o MapRepos(ServerPage(page))]_vars
  /\ (pc = "listing") ~> (pc # "listing")

\* A listing of three pages has returned.
C18_Witness ==
  /\ pc = "listed"
  /\ requested
  /\ page > 2
  /\ Len(allRepos) > 2 * perPage

\* C19: a 404 answer to a page request makes the Lister fail with
\* organization-not-found in that step: no retry and no sleep follows, the
\* credential index is not rotated, no further page is requested, and the
\* failure is not taken as a transport error (the phase is error, not partial).
C19_NotFoundIsFatal ==
  [][(pc = "listing" /\ req'.status = 404 /\ req.status # 404) =>
       /\ pc' = "idle"
       /\ listError' = "notfound"
       /\ listError' # "network"
       /\ phase' = "error"
       /\ tokenIndex' = tokenIndex
       /\ ~req'.waiting
       /\ req'.attempt = req.attempt]_vars

\* A 404 answered to a retry attempt, attempts and credentials being left.
C19_Witness ==
  /\ listError = "notfound"
  /\ req.status = 404
  /\ req.attempt > 0
  /\ req.attempt < MAX_RETRIES - 1
  /\ nTokens > 1

\* C20 as claimed: a Lister given an existing list, of any length, sends no
\* request and returns that list.
C20_ExistingListSkipsNetwork ==
  existingRepos.given =>
    /\ ~requested
    /\ pc = "listed"
    /\ allRepos = existingRepos.repos

\* C20 amended: a Lister given a non-empty existing list sends no request and
\* returns that list; given an empty list it lists from the network as if
\* none were given.
C20_NonEmptyExistingListSkipsNetwork ==
  /\ (existingRepos.given /\ Len(existingRepos.repos) > 0) =>
       /\ ~requested
       /\ pc = "listed"
       /\ allRepos = existingRepos.repos
  /\ (existingRepos.given /\ Len(existingRepos.repos) = 0) => requested

\* The Lister returned an existing list longer than a page.
C20_Witness ==
  /\ pc = "listed"
  /\ existingRepos.given
  /\ Len(existingRepos.repos) > perPage
  /\ ~requested

\* C21 as claimed: a call of the transport whose last response is a 5xx does
\* not return that response: it raises an error that carries the status.
C21_ExhaustedServerErrorIsRaised ==
  /\ req.last.ended = "returned" => ~Retried(req.last.status)
  /\ (req.last.ended = "raised" /\ req.last.lastError = "server") =>
       Retried(req.last.statusCode)

C23_CrossOriginFailsAtOnce ==
  /\ [][(/\ pc = "listing"
         /\ ~req.waiting
         /\ req' # req
         /\ req'.status = 0
         /\ req'.lastError = "cors") =>
          /\ pc' = "idle"
          /\ listError' = "network"
          /\ req'.last.ended = "raised"
          /\ ~req'.last.retryable
          /\ ~req'.waiting
          /\ req'.attempt = req.attempt
          /\ req'.waits = req.waits
          /\ req'.notices = req.notices]_vars
  /\ [][(/\ pc = "listing"
         /\ ~req.waiting
         /\ req' # req
         /\ req'.status = 0
         /\ req'.lastError = "timeout") =>
          IF req.attempt + 1 < 5
          THEN /\ pc' = "listing"
               /\ req'.waiting
               /\ req'.attempt = req.attempt
               /\ req'.waits = Append(req.waits, RetryDelay(req.attempt))
               /\ req'.notices = req.notices + 1
          ELSE /\ pc' = "idle"
               /\ req'.last.ended = "raised"
               /\ req'.last.retryable
               /\ req'.waits = req.waits]_vars
  /\ [][(req.waiting /\ req' # req) =>
          /\ ~req'.waiting
          /\ req'.attempt = req.attempt + 1]_vars

\* A cross-origin rejection in a retry ended the call, attempts being left.
C23_Witness ==
  /\ pc = "idle"
  /\ listError = "network"
  /\ req.lastError = "cors"
  /\ req.attempt > 0
  /\ req.attempt + 1 < MAX_RETRIES
  /\ req.notices = req.attempt

\* C24 as claimed: a request is retried at most 3 times, after sleeps of 1 s,
\* 3 s and 5 s, and a call that ends after a 5xx or a network failure raises.
C24_ThreeRetries ==
  /\ req.attempt <= 3
  /\ \A k \in DOMAIN req.waits : k <= 3 /\ req.waits[k] = <<1000, 3000, 5000>>[k]
  /\ req.last.ended = "returned" => ~Retried(req.last.status)

\* C36: a 403 response that carries no remaining-quota header is handled as a
\* rate-limit rejection (remaining is taken as 0): the request rotates to the
\* next credential or rate-limit-exceeded is raised, and the response is never
\* returned to the caller; a 403 with remaining > 0 is returned as an ordinary
\* response, without rotation (fetchOrgRepos then raises its error for a
\* response that is not OK).
C36_MissingHeaderIsRateLimit ==
  [][/\ pc # "listing" \/ ~ListerResponse(403, "absent") \/
          /\ listError' # "network"
          /\ \/ /\ pc' = "listing"
                /\ tokenIndex' = RotateToken(nTokens, tokenIndex)
                /\ tokenIndex' # tokenIndex
                /\ GetToken(nTokens, tokenIndex) \in req'.triedTokens
             \/ /\ pc' = "idle"
                /\ listError' = "ratelimit"
                /\ tokenIndex' = tokenIndex
     /\ pc # "listing" \/ ~ListerResponse(403, "1") \/
          /\ pc' = "idle"
          /\ listError' = "network"
          /\ tokenIndex' = tokenIndex
          /\ req'.last.ended = "returned"
          /\ req'.last.status = 403]_vars

\* A listing that went on with the next credential after a 403 response
\* without the header.
C36_Witness ==
  /\ pc = "listing"
  /\ req.header = "absent"
  /\ req.status = 403
  /\ req.triedTokens # {}

\* ---------------------------------------------- claims under SpecRot

Pool == 1..nTokens

\* C6: a logical request raises rate-limit-exceeded only when the pool holds at
\* most one credential or every credential of the pool was rejected within
\* that request; with two or more credentials of which one has quota, no
\* request raises it.
C6_RateLimitOnlyWhenAllRejected ==
  \A q \in DOMAIN call :
    call[q].result = "ratelimit" =>
      /\ nTokens <= 1 \/ call[q].rejected = Pool
      /\ nTokens >= 2 => Pool \subseteq exhausted

\* A call that ended with a Repository after a request that was rejected with
\* one credential and answered with another.
C6_Witness ==
  \E q \in DOMAIN call :
    /\ nTokens >= 2
    /\ call[q].result \in {"match", "nomatch"}
    /\ call[q].rejected # {}

\* C7: within one logical request no credential is attempted twice, also when
\* the calls of a batch rotate the shared index concurrently: no request is in
\* flight with a credential that was already rejected in that same request.
C7_EachCredentialOnce ==
  \A q \in DOMAIN call :
    InFlight(q) => call[q].token \notin call[q].rejected

\* C8 as claimed: a call whose tree fetch failed, by a non-OK response or by a
\* raised transport failure, ends with the repository classified no match.
C8_TreeFailureAbsorbed ==
  \A q \in DOMAIN call :
    (call[q].pc = "done" /\ call[q].treeFailed # "no") => call[q].result = "nomatch"

\* C8 amended: a call whose tree request is answered with a non-OK response
\* ends with the repository classified no match; a call ends by raising only
\* on a rate-limit rejection of the exhausted pool or a raised transport
\* failure, which nothing in the Config Scanner absorbs.
C8_NonOkTreeIsNoMatch ==
  \A q \in DOMAIN call :
    /\ (call[q].pc = "done" /\ call[q].treeFailed = "nonok") => call[q].result = "nomatch"
    /\ (call[q].pc = "done" /\ call[q].treeFailed = "raised") =>
         call[q].result \in {"ratelimit", "network"}

\* A batch in which one call's tree was answered non-OK and another call was
\* answered with a match.
C8_Witness ==
  \E q, r \in DOMAIN call :
    /\ call[q].treeFailed = "nonok"
    /\ call[q].result = "nomatch"
    /\ call[r].result = "match"

\* C32: every logical request starts with an empty tried set: the tried set
\* of a request in flight holds exactly the credentials rejected within that
\* request, so a credential rejected in an earlier request of the call (the
\* tree fetch) is not counted as tried in a later one (a file fetch).
C32_TriedSetPerRequest ==
  \A q \in DOMAIN call :
    InFlight(q) => call[q].triedTokens = call[q].rejected

\* A call in a content request with an empty tried set, after a credential was
\* rejected in an earlier request of the same call.
C32_Witness ==
  \E q \in DOMAIN call :
    /\ call[q].pc = "file"
    /\ call[q].before
    /\ call[q].triedTokens = {}

\* C39: provided every network call eventually settles, every logical request
\* of a batch ends after finitely many credential rotations, also when the
\* concurrent requests of the batch keep rotating the shared current index:
\* every call of the batch eventually ends.
C39_EveryRequestEnds ==
  <>(\A q \in DOMAIN call : call[q].pc = "done")

\* --------------------------------------------- claims under SpecScan

\* The text holds the marker, in whatever case.
MarkerIn(t) == \E n \in DOMAIN t : t[n] \in {"jfrog", "JFROG"}

\* A candidate file that was fetched and has a line holding the marker.
MarkerFile(f) == f.ok /\ \E l \in Range(Split(f.content)) : MarkerIn(l)

\* C29: the candidate files of a call are the blobs of the tree whose path
\* ends with .lfsconfig; the call returns match exactly when a line of a
\* candidate file that was fetched OK holds the marker in whatever case; the
\* lines recorded hold the marker and none is recorded twice; and a candidate
\* file answered non-OK is skipped: the call goes on and records nothing.
C29_MatchIffMarkerLine ==
  /\ [](scan.pc = "done" =>
          /\ scan.hasJfrog \in {"true", "false"}
          /\ (scan.hasJfrog = "true") <=>
               \E n \in DOMAIN scan.fetched : MarkerFile(scan.fetched[n]))
  /\ [](NoDup(scan.jfrogUrls) /\ \A n \in DOMAIN scan.jfrogUrls : MarkerIn(scan.jfrogUrls[n]))
  /\ [][\A tree \in IF scan.pc = "tree" THEN Trees ELSE {} :
          ScanTreeAnswered(TRUE, tree) =>
            scan'.files =
              SelectSeq(tree, LAMBDA item :
                /\ item.type = "blob"
                /\ item.path[Len(item.path)] = ".lfsconfig")]_vars
  /\ [][ScanFileAnswered(FALSE, <<>>) =>
          /\ scan'.pc \in {"file", "done"}
          /\ scan'.jfrogUrls = scan.jfrogUrls
          /\ scan'.configLocations = scan.configLocations]_vars

\* A call returned match although one of its two candidate files was answered
\* non-OK, the marker being written with capitals in every line recorded.
C29_Witness ==
  /\ scan.pc = "done"
  /\ scan.hasJfrog = "true"
  /\ Len(scan.fetched) = 2
  /\ \E n \in DOMAIN scan.fetched : ~scan.fetched[n].ok
  /\ \A n \in DOMAIN scan.jfrogUrls : ~Includes(scan.jfrogUrls[n], "jfrog")

\* C30 as claimed: the paths a call recorded are the candidate files in which a
\* line holds the marker, each once.
C30_PathsOfMarkerFiles ==
  scan.pc = "done" =>
    /\ NoDup(scan.configLocations)
    /\ Range(scan.configLocations) =
         {scan.fetched[n].path : n \in {m \in DOMAIN scan.fetched :
                                          MarkerFile(scan.fetched[m])}}

\* ------------------------------------------ claims under SpecScanRot

\* What the lines of one file add to the lines and paths recorded so far.
RECURSIVE RefLines(_, _, _, _)
RefLines(c, path, lines, n) ==
  IF n > Len(lines) THEN c
  ELSE RefLines(
         IF MarkerIn(lines[n]) /\ ~Includes(c.jfrogUrls, Trim(lines[n]))
         THEN [jfrogUrls |-> Append(c.jfrogUrls, Trim(lines[n])),
               configLocations |-> IF Includes(c.configLocations, path)
                                   THEN c.configLocations
                                   ELSE Append(c.configLocations, path)]
         ELSE c,
         path, lines, n + 1)

\* The lines and paths that follow from the responses f alone, file by file.
RECURSIVE RefFiles(_, _, _)
RefFiles(c, f, n) ==
  IF n > Len(f) THEN c
  ELSE RefFiles(IF f[n].ok THEN RefLines(c, f[n].path, Split(f[n].content), 1) ELSE c,
                f, n + 1)

\* C31: the Config Scanner is deterministic in the content it reads: the
\* classification, the matched lines and the file paths a call returns are
\* those that follow from the tree and the file contents it was answered
\* with, whichever credential served the requests and however the shared
\* index was rotated meanwhile; so two scans answered alike return alike.
C31_Deterministic ==
  scan.pc = "done" =>
    LET r == RefFiles([jfrogUrls |-> <<>>, configLocations |-> <<>>], scan.fetched, 1)
    IN  /\ scan.jfrogUrls = r.jfrogUrls
        /\ scan.configLocations = r.configLocations
        /\ scan.hasJfrog = IF r.jfrogUrls # <<>> THEN "true" ELSE "false"
        /\ Len(scan.fetched) = Len(scan.files)
        /\ \A n \in DOMAIN scan.files : scan.fetched[n].path = scan.files[n].path

\* A call returned match from two files answered OK, the last of them served
\* by another credential than the one the call began with.
C31_Witness ==
  /\ scan.pc = "done"
  /\ scan.hasJfrog = "true"
  /\ Len(scan.fetched) = 2
  /\ \A n \in DOMAIN scan.fetched : scan.fetched[n].ok
  /\ Len(scan.configLocations) = 2
  /\ tokenIndex # 0

\* --------------------------------------------------------- SpecHost

\* The parts a host text is made of: a blank, the scheme prefix in lower case
\* and with capitals, a slash, the public host name in lower case and with
\* capitals, and the name of another host.
HostChars == {"sp", "https://", "HTTPS://", "/", "github.com", "GITHUB.COM", "ghes"}

\* An optional string: undefined, or a text.
NoHost == [defined |-> FALSE, text |-> <<>>]
Host(t) == [defined |-> TRUE, text |-> t]

\* a || b on optional strings: a when it is truthy (defined and not empty)
OrElse(a, b) == IF a.defined /\ a.text # <<>> THEN a ELSE b

\* t.replace(/^https?:\/\//, ''): one prefix, in lower case only
StripScheme(t) == IF t # <<>> /\ t[1] = "https://" THEN Tail(t) ELSE t

\* t.replace(/\/+$/, '')
RECURSIVE StripSlashes(_)
StripSlashes(t) ==
  IF t # <<>> /\ t[Len(t)] = "/" THEN StripSlashes(SubSeq(t, 1, Len(t) - 1)) ELSE t

\* normalizeGhesHost on host texts in parts
normalizeHostText(h) ==
  IF \/ ~h.defined
     \/ h.text = <<>>
     \/ Trim(h.text) = <<>>
     \/ toLowerCase(Trim(h.text)) = <<"github.com">>
  THEN NoHost
  ELSE Host(toLowerCase(StripSlashes(StripScheme(Trim(h.text)))))

\* getApiBaseUrl
getApiBaseUrl(h) ==
  LET normalizedHost == normalizeHostText(h)
  IN  IF ~normalizedHost.defined \/ normalizedHost.text = <<>>
      THEN <<"https://api.github.com">>
      ELSE <<"https://">> \o normalizedHost.text \o <<"/api/v3">>

\* The API roots the requests of a run go to: fetchOrgRepos is handed
\* targetGhesHost, checkRepoForJfrog is handed ghesHost || scanState.ghesHost.
ApiRoots(target, stored) ==
  {getApiBaseUrl(target), getApiBaseUrl(OrElse(target, stored))}

\* The host input's onChange: the user appends a part to the text.
HostType(c) ==
  /\ pc = "idle"
  /\ Len(ghesHost) < MaxHostLen
  /\ ghesHost' = Append(ghesHost, c)
  /\ UNCHANGED <<order, pushes, progress, scan, nTokens, tokenIndex, cancel, scanState,
                 runVars, hist, rotVars, created, downloaded, listError, listVars,
                 sessionVars>>

\* The host input's onChange: the user clears the text.
HostClear ==
  /\ pc = "idle"
  /\ ghesHost # <<>>
  /\ ghesHost' = <<>>
  /\ UNCHANGED <<order, pushes, progress, scan, nTokens, tokenIndex, cancel, scanState,
                 runVars, hist, rotVars, created, downloaded, listError, listVars,
                 sessionVars>>

\* handleScan(): a new scan of the host in the input field, up to the Scan
\* State it leaves; apiRoots is history, the API roots its requests went to.
HostScan ==
  /\ pc = "idle"
  /\ LET targetGhesHost == normalizeHostText(Host(Trim(ghesHost)))
     IN  /\ scanState' = <<[ghesHost |-> targetGhesHost,
                            apiRoots |-> ApiRoots(targetGhesHost, targetGhesHost)]>>
         /\ currentScanState' = <<>>
  /\ UNCHANGED <<order, pushes, progress, scan, nTokens, tokenIndex, cancel,
                 pc, resumeState, page, allRepos, pendingRepos, i, concurrency,
                 results, batchResults, scanResult, phase, hist, rotVars, appVars,
                 listVars, sessionVars>>

\* handleScan(scanState): the scan is resumed from its Scan State.
HostResume ==
  /\ pc = "idle"
  /\ scanState # <<>>
  /\ LET stored == scanState[1].ghesHost
         targetGhesHost == normalizeHostText(OrElse(stored, Host(Trim(ghesHost))))
     IN  /\ ghesHost' = OrElse(stored, Host(<<>>)).text
         /\ currentScanState' = <<[ghesHost |-> stored,
                                   apiRoots |-> ApiRoots(targetGhesHost, stored)]>>
  /\ UNCHANGED <<order, pushes, progress, scan, nTokens, tokenIndex, cancel, scanState,
                 pc, resumeState, page, allRepos, pendingRepos, i, concurrency,
                 results, batchResults, scanResult, phase, hist, rotVars, created,
                 downloaded, listError, listVars, sessionVars>>

InitHost ==
  /\ order = <<>>
  /\ pushes = 0
  /\ progress = NoProgress
  /\ scan = NoScan
  /\ nTokens = 0
  /\ tokenIndex = 0
  /\ cancel = FALSE
  /\ scanState = <<>>
  /\ pc = "idle"
  /\ resumeState = FALSE
  /\ page = 1
  /\ allRepos = <<>>
  /\ currentScanState = <<>>
  /\ pendingRepos = <<>>
  /\ i = 0
  /\ concurrency = 0
  /\ results = <<>>
  /\ batchResults = <<>>
  /\ scanResult = NoResult
  /\ phase = "idle"
  /\ absorbed = FALSE
  /\ settledAtFailure = 0
  /\ exhausted = {}
  /\ call = <<>>
  /\ ghesHost = <<>>
  /\ created = 0
  /\ downloaded = <<>>
  /\ listError = "none"
  /\ existingRepos = NotGiven
  /\ req = NewRequest
  /\ requested = FALSE
  /\ fileResult = "none"
  /\ lateInFlight = FALSE

NextHost ==
  \/ \E c \in HostChars : HostType(c)
  \/ HostClear
  \/ HostScan
  \/ HostResume

SpecHost == InitHost /\ [][NextHost]_vars

\* --------------------------------------------------------- claims under SpecHost

\* C40: host normalization is idempotent: the host a Scan State stores, which
\* is the normalized text of the input field, is normalized to itself (the
\* empty text and no host, which resolve alike, taken as one); and a scan
\* resumed from a Scan State that stores a host sends its requests to the
\* API root the scan was started with.
C40_HostIdempotent ==
  scanState # <<>> =>
    LET stored == scanState[1].ghesHost
    IN  /\ OrElse(normalizeHostText(stored), NoHost) = OrElse(stored, NoHost)
        /\ (stored.defined /\ stored.text # <<>> /\ currentScanState # <<>>) =>
             currentScanState[1].apiRoots = scanState[1].apiRoots

====
